---- MODULE Spec2Model ----
(***************************************************************************)
(* Model of onos-config-model: the file-backed model registry              *)
(* (pkg/model/registry/registry.go), the plugin cache and its file lock    *)
(* (pkg/model/plugin/cache/cache.go) and the registry gRPC server          *)
(* (Server.GetModel / ListModels / PushModel / DeleteModel).               *)
(*                                                                         *)
(* The specifications share the definitions:                               *)
(*   RegSpec   a caller drives the registry API (AddModel, RemoveModel,    *)
(*             GetModel, ListModels) on a directory that starts empty;     *)
(*   Spec      gRPC workers of several server processes serve requests     *)
(*             concurrently on one registry directory and one partition;   *)
(*   ResSpec   callers of Resolver.Resolve (pkg/model/plugin/module) on a  *)
(*             resolver path whose files come and go;                      *)
(*   PathSpec  callers of PluginCache.GetPath on such a resolver path;     *)
(*   CacheSpec callers of the PluginCache API in two processes, with a     *)
(*             resolver whose hash can change;                             *)
(*   CompSpec  a caller of PluginCompiler.CompilePlugin and of Load;       *)
(*   FairSpec  the PushModel requests of Spec, with the fairness of the    *)
(*             goroutines that serve them;                                 *)
(*   RaceSpec  concurrent callers of Resolver.Resolve on one path, one     *)
(*             file operation at a time;                                   *)
(*   EntrySpec concurrent callers of PluginCache.Entry in two processes.   *)
(*                                                                         *)
(* Strings are sequences of characters, so that formatting a file name     *)
(* and encoding a descriptor as JSON are computed, not assumed.            *)
(***************************************************************************)
EXTENDS Integers, Sequences, FiniteSets

VARIABLES
    registry,   \* registry directory: descriptor file name -> bytes, or NoFile
    artifacts,  \* artifact files present under the cache path (cleaned paths)
    cacheLock,  \* per server process: PluginCache.lock (a Flock object or Nil)
    flock,      \* per Flock object: the fields l, r (locked flags) and fh (open handle)
    mode,       \* per Flock object: what the kernel holds for its open file: "un", "sh", "ex"
    pc,         \* per worker: position in the handler it runs
    req,        \* per worker: the request being served
    lk,         \* per worker: the local variable `lock` returned by getLock
    res,        \* per worker: the status the handler returned
    did,        \* per worker: steps of PushModel this request has executed
    files,      \* per worker: ListModels' modelFiles still to load
    nreq,       \* number of requests started (bounded)
    registry0,  \* the registry directory as it was when the run started
    hist,       \* RegSpec, ResSpec, CacheSpec: the calls made so far, with arguments and results
    resolver,   \* Resolver.Config.Target, the files go.mod and mod.md5 under Config.Path,
                \* and what the module cache holds for the target after `go get`
    lockFile,   \* per Flock object: the path of the cache.lock it was created on, or <<>>
    cancelled,  \* callers blocked in Lock or RLock whose request has been cancelled
    build,      \* CompilerConfig.SkipCleanUp, the build tree of one descriptor key and
                \* the file at the output path
    rd,         \* per caller of Resolve: its local variables modBytes / mod and hashBytes / hash
    entries,    \* per server process: PluginCache.entries, the map from "name-version" to
                \* a *PluginEntry
    heap        \* the PluginEntry objects allocated so far

vars ==
    <<registry, artifacts, cacheLock, flock, mode, pc, req, lk, res, did, files, nreq,
      registry0, hist, resolver, lockFile, cancelled, build, rd, entries, heap>>

envVars == <<resolver, lockFile>>

entryVars == <<entries, heap>>

compVars == <<cancelled, build, rd, entryVars>>

serverVars == <<artifacts, cacheLock, flock, mode, pc, req, lk, res, did, files, nreq>>

-----------------------------------------------------------------------------
(* Bounds *)

\* Number of registry API calls in one run of RegSpec.
MaxOps == 3

\* Number of requests started in one run of Spec.
MaxReqs == 3

\* Number of Resolve calls and changes of the files in one run of ResSpec.
MaxResOps == 3

\* Number of GetPath calls and changes of the files in one run of PathSpec.
MaxPathOps == 2

\* Number of cache API calls and reconfigurations started in one run of CacheSpec.
MaxCacheOps == 4

\* Calls of the compiler and of the loader in a behaviour of CompSpec.
MaxCompOps == 2

\* Calls of Resolve started in a behaviour of RaceSpec.
MaxRaceOps == 3

\* Calls of PluginCache.Entry started in a behaviour of EntrySpec.
MaxEntryOps == 4

-----------------------------------------------------------------------------
(* Strings, names and versions *)

\* A byte that is not valid UTF-8, and the replacement rune json.Marshal puts for it.
BAD == "\\xff"
FFFD == "\\ufffd"

\* The extension, kept as one token (it starts with '.').
jsonExt == ".json"


NameA == <<"a">>
NameAB == <<"a", "-", "b">>
NameSlash == <<"a", "/", "b">>
NameBad == <<BAD>>
Ver1 == <<"1">>
VerB1 == <<"b", "-", "1">>
Empty == <<>>

Key(n, v) == [name |-> n, version |-> v]

\* The (name, version) pairs callers use.
Keys ==
    { Key(NameA, Ver1), Key(NameAB, Ver1), Key(NameA, VerB1),
      Key(Empty, Ver1), Key(NameA, Empty), Key(NameSlash, Ver1), Key(NameBad, Ver1) }

-----------------------------------------------------------------------------
(* Descriptors: configmodel.ModelInfo as PushModel builds it *)

ModuleBar == [name |-> <<"b">>, organization |-> <<"o">>, revision |-> <<"2">>, file |-> <<"b">>]
FileBar == [path |-> <<"b">>, data |-> <<"h">>]

\* A descriptor whose plugin record echoes its key, with no module.
Plain(k) ==
    [name |-> k.name, version |-> k.version, files |-> <<>>, modules |-> <<>>,
     plugin |-> [name |-> k.name, version |-> k.version]]

\* A descriptor with one module and one file and a plugin record of its own.
WithModule(k) ==
    [name |-> k.name, version |-> k.version, files |-> <<FileBar>>, modules |-> <<ModuleBar>>,
     plugin |-> [name |-> <<"p">>, version |-> <<"2">>]]

\* A descriptor whose module reference holds a byte sequence that is not UTF-8.
WithBadModule(k) ==
    [WithModule(k) EXCEPT !.modules = <<[ModuleBar EXCEPT !.organization = <<BAD>>]>>]

Descriptors ==
    { Plain(k) : k \in Keys } \cup { WithModule(Key(NameA, Ver1)), WithBadModule(Key(NameA, Ver1)) }

\* configmodel.ModelInfo{}
ZeroModel ==
    [name |-> Empty, version |-> Empty, files |-> <<>>, modules |-> <<>>,
     plugin |-> [name |-> Empty, version |-> Empty]]

KeyOf(m) == Key(m.name, m.version)

-----------------------------------------------------------------------------
(* Errors: onos-lib-go TypedError values and plain Go errors *)

NoErr == [typed |-> FALSE, kind |-> "nil"]
TypedErr(k) == [typed |-> TRUE, kind |-> k]
PlainErr(k) == [typed |-> FALSE, kind |-> k]

\* errors.IsNotFound: true only of a *TypedError of type NotFound.
IsNotFound(err) == err.typed /\ err.kind = "NotFound"

\* errors.Status(err).Err(): the gRPC status a handler returns for err.
Status(err) ==
    IF err = NoErr THEN "OK"
    ELSE IF ~err.typed THEN "Internal"
    ELSE err.kind

-----------------------------------------------------------------------------
(* JSON encoding of a descriptor *)

\* json.Marshal coerces a string to valid UTF-8.
ToValidUTF8(s) == [i \in DOMAIN s |-> IF s[i] = BAD THEN FFFD ELSE s[i]]

EncModule(m) ==
    [name |-> ToValidUTF8(m.name), organization |-> ToValidUTF8(m.organization),
     revision |-> ToValidUTF8(m.revision), file |-> ToValidUTF8(m.file)]

EncFile(f) == [path |-> ToValidUTF8(f.path), data |-> f.data]

\* json.MarshalIndent of a descriptor type whose module list is not exported to JSON.
MarshalIndentNoModules(model) ==
    [json |-> "object",
     name |-> ToValidUTF8(model.name),
     version |-> ToValidUTF8(model.version),
     files |-> [i \in DOMAIN model.files |-> EncFile(model.files[i])],
     modules |-> <<>>,
     plugin |-> [name |-> ToValidUTF8(model.plugin.name),
                 version |-> ToValidUTF8(model.plugin.version)]]

\* json.MarshalIndent(model, "", "  "): the bytes of the descriptor file.
MarshalIndent(model) ==
    [json |-> "object",
     name |-> ToValidUTF8(model.name),
     version |-> ToValidUTF8(model.version),
     files |-> [i \in DOMAIN model.files |-> EncFile(model.files[i])],
     modules |-> [i \in DOMAIN model.modules |-> EncModule(model.modules[i])],
     plugin |-> [name |-> ToValidUTF8(model.plugin.name),
                 version |-> ToValidUTF8(model.plugin.version)]]

\* json.Unmarshal(bytes, &modelInfo) of bytes MarshalIndent wrote.
Unmarshal(bytes) ==
    [name |-> bytes.name, version |-> bytes.version, files |-> bytes.files,
     modules |-> bytes.modules, plugin |-> bytes.plugin]

-----------------------------------------------------------------------------
(* The registry directory *)

NoFile == [json |-> "absent"]

\* getDescriptorFile that leaves the version out of the file name.
getDescriptorFileByName(name, version) == name \o <<"-">> \o <<jsonExt>>

\* getDescriptorFile: "{name}-{version}.json" under the registry path.
getDescriptorFile(name, version) == name \o <<"-">> \o version \o <<jsonExt>>

DescFiles == { getDescriptorFile(k.name, k.version) : k \in Keys }

\* The registry path holds no subdirectory, so a file name with a separator
\* names a file in a directory that does not exist.
ParentExists(file) == \A i \in DOMAIN file : file[i] # "/"

EmptyRegistry == [f \in DescFiles |-> NoFile]

FileExists(reg, file) == ParentExists(file) /\ reg[file] # NoFile

\* Byte order of the characters, for filepath.Walk's lexical order.
Rank(c) ==
    CASE c = "-" -> 45
      [] c = jsonExt -> 46
      [] c = "/" -> 47
      [] c = "1" -> 49
      [] c = "a" -> 97
      [] c = "b" -> 98
      [] OTHER -> 255

LexLess(s, t) ==
    \/ /\ Len(s) < Len(t)
       /\ \A i \in 1..Len(s) : s[i] = t[i]
    \/ \E i \in 1..Len(s) :
          /\ i <= Len(t)
          /\ \A j \in 1..(i - 1) : s[j] = t[j]
          /\ Rank(s[i]) < Rank(t[i])

RECURSIVE Sorted(_)
Sorted(S) ==
    IF S = {} THEN <<>>
    ELSE LET m == CHOOSE x \in S : \A y \in S \ {x} : LexLess(x, y)
         IN <<m>> \o Sorted(S \ {m})

HasSuffix(file, ext) == Len(file) > 0 /\ file[Len(file)] = ext

\* loadModels' walk: the files under the path with suffix ".json", in lexical order.
Walk(reg) == Sorted({ f \in DescFiles : FileExists(reg, f) /\ HasSuffix(f, jsonExt) })

\* loadModel without the check of the decoded name and version.
loadModelUnchecked(reg, file) ==
    IF ~FileExists(reg, file) THEN [model |-> ZeroModel, err |-> PlainErr("ENOENT")]
    ELSE [model |-> Unmarshal(reg[file]), err |-> NoErr]

\* loadModel(path): read, decode and validate one descriptor file.
loadModel(reg, file) ==
    IF ~FileExists(reg, file)
    THEN [model |-> ZeroModel, err |-> PlainErr("ENOENT")]
    ELSE LET modelInfo == Unmarshal(reg[file])
         IN IF modelInfo.name = Empty \/ modelInfo.version = Empty
            THEN [model |-> ZeroModel, err |-> TypedErr("Invalid")]
            ELSE [model |-> modelInfo, err |-> NoErr]

\* The loop of loadModels over modelFiles: stop at the first error.
RECURSIVE loadAll(_, _, _)
loadAll(reg, modelFiles, models) ==
    IF modelFiles = <<>> THEN [models |-> models, err |-> NoErr]
    ELSE LET r == loadModel(reg, Head(modelFiles))
         IN IF r.err # NoErr THEN [models |-> <<>>, err |-> r.err]
            ELSE loadAll(reg, Tail(modelFiles), Append(models, r.model))

\* loadModels with a loop that starts at the second file.
loadModelsSkipsFirst(reg) ==
    loadAll(reg, IF Walk(reg) = <<>> THEN <<>> ELSE Tail(Walk(reg)), <<>>)

loadModels(reg) == loadAll(reg, Walk(reg), <<>>)

\* ConfigModelRegistry.GetModel
GetModel(reg, name, version) == loadModel(reg, getDescriptorFile(name, version))

\* ConfigModelRegistry.ListModels
ListModels(reg) == loadModels(reg)

\* AddModel that creates the file exclusively and fails on an existing one.
AddModelExclusive(reg, model) ==
    LET bytes == MarshalIndent(model)
        path == getDescriptorFile(model.name, model.version)
    IN IF ~ParentExists(path) THEN [reg |-> reg, err |-> PlainErr("ENOENT")]
       ELSE IF FileExists(reg, path) THEN [reg |-> reg, err |-> PlainErr("EEXIST")]
       ELSE [reg |-> [reg EXCEPT ![path] = bytes], err |-> NoErr]

\* ConfigModelRegistry.AddModel: marshal and ioutil.WriteFile.
AddModel(reg, model) ==
    LET bytes == MarshalIndent(model)
        path == getDescriptorFile(model.name, model.version)
    IN IF ~ParentExists(path)
       THEN [reg |-> reg, err |-> PlainErr("ENOENT")]
       ELSE [reg |-> [reg EXCEPT ![path] = bytes], err |-> NoErr]

\* RemoveModel without the os.Stat check: os.Remove of a missing file fails.
RemoveModelNoStat(reg, name, version) ==
    LET path == getDescriptorFile(name, version)
    IN IF FileExists(reg, path)
       THEN [reg |-> [reg EXCEPT ![path] = NoFile], err |-> NoErr]
       ELSE [reg |-> reg, err |-> PlainErr("ENOENT")]

\* ConfigModelRegistry.RemoveModel: os.Stat, then os.Remove unless the file does not exist.
RemoveModel(reg, name, version) ==
    LET path == getDescriptorFile(name, version)
    IN IF FileExists(reg, path)
       THEN [reg |-> [reg EXCEPT ![path] = NoFile], err |-> NoErr]
       ELSE [reg |-> reg, err |-> NoErr]

-----------------------------------------------------------------------------
(* The module resolver: pkg/model/plugin/module/resolver.go *)

\* What a file under the resolver path may hold: go.mod a manifest that parses
\* ("m1", "m2"), bytes that do not parse, or the start of a manifest whose write
\* broke off; mod.md5 a hash, or the start of one. "absent": no readable file.
Absent == "absent"
Manifests == {"m1", "m2"}
GoModContents == Manifests \cup {Absent, "corrupt", "partial"}
HashContents == {Absent, "h1", "h2", "partial", "empty"}

\* The module cache after `go get`: the target's go.mod and its ziphash.
Upstream1 == [mod |-> "m1", hash |-> "h1"]
Upstream2 == [mod |-> "m2", hash |-> "h2"]
Upstreams == {Upstream1, Upstream2}

\* Config.Target: empty, or a module path.
Targets == {"", "t"}

\* ioutil.ReadFile fails on a file that is missing or unreadable.
ReadFails(content) == content = Absent

\* modfile.Parse accepts the manifests, and a file without a statement.
Parses(bytes) == bytes \in Manifests \cup {"empty"}

\* The local variables of a Resolve that has read or fetched nothing yet.
NoRead == [mod |-> Absent, hash |-> Absent]

\* Where fetchMod may fail on a configured target: ioutil.TempDir, the exit
\* status of `go get -d`, the entries of the module cache; or nowhere.
FetchOutcomes == {"ok", "tempdir", "goget", "cache"}

\* ioutil.WriteFile: written; not opened (file left as it was); opened and
\* truncated but not written in full.
WriteOutcomes == {"ok", "open", "partial"}

AfterWrite(old, bytes, outcome) ==
    CASE outcome = "ok" -> bytes
      [] outcome = "open" -> old
      [] outcome = "partial" -> "partial"

WriteErr(outcome) ==
    CASE outcome = "ok" -> NoErr
      [] outcome = "open" -> PlainErr("EACCES")
      [] outcome = "partial" -> PlainErr("ENOSPC")

\* fetchMod without the check of the target: `go get -d ""` exits with an error.
fetchModNoTargetCheck(r, outcome) ==
    IF r.target = ""
    THEN [mod |-> Absent, hash |-> Absent, err |-> PlainErr("exit"), ran |-> TRUE]
    ELSE CASE outcome = "tempdir" ->
                [mod |-> Absent, hash |-> Absent, err |-> PlainErr("tempdir"), ran |-> FALSE]
           [] outcome = "goget" ->
                [mod |-> Absent, hash |-> Absent, err |-> PlainErr("exit"), ran |-> TRUE]
           [] outcome = "cache" ->
                [mod |-> Absent, hash |-> Absent, err |-> PlainErr("ENOENT"), ran |-> TRUE]
           [] outcome = "ok" ->
                [mod |-> r.upstream.mod, hash |-> r.upstream.hash, err |-> NoErr, ran |-> TRUE]

\* Resolver.fetchMod: ran tells whether a subprocess was started.
fetchMod(r, outcome) ==
    IF r.target = ""
    THEN [mod |-> Absent, hash |-> Absent, err |-> TypedErr("Invalid"), ran |-> FALSE]
    ELSE CASE outcome = "tempdir" ->
                [mod |-> Absent, hash |-> Absent, err |-> PlainErr("tempdir"), ran |-> FALSE]
           [] outcome = "goget" ->
                [mod |-> Absent, hash |-> Absent, err |-> PlainErr("exit"), ran |-> TRUE]
           [] outcome = "cache" ->
                [mod |-> Absent, hash |-> Absent, err |-> PlainErr("ENOENT"), ran |-> TRUE]
           [] outcome = "ok" ->
                [mod |-> r.upstream.mod, hash |-> r.upstream.hash, err |-> NoErr, ran |-> TRUE]

\* The result of Resolve: the manifest, the hash, the error, the resolver with
\* its files afterwards, whether fetchMod was called, whether a subprocess ran
\* and which files were opened for writing and truncated or written.
Resolved(mod, hash, err, after, fetched, ran, wrote) ==
    [mod |-> mod, hash |-> hash, err |-> err, after |-> after, fetched |-> fetched,
     ran |-> ran, wrote |-> wrote]

\* Resolve without the memoization: it fetches whatever the files under the path.
ResolveRefetches(r, outcome, w1, w2) ==
    LET f == fetchMod(r, outcome)
        r1 == [r EXCEPT !.gomod = AfterWrite(@, f.mod, w1)]
        r2 == [r1 EXCEPT !.md5 = AfterWrite(@, f.hash, w2)]
    IN IF f.err # NoErr
       THEN Resolved(Absent, Absent, f.err, r, TRUE, f.ran, {})
       ELSE IF w1 # "ok"
       THEN Resolved(Absent, Absent, WriteErr(w1), r1, TRUE, f.ran,
                     IF w1 = "open" THEN {} ELSE {"go.mod"})
       ELSE IF w2 # "ok"
       THEN Resolved(Absent, Absent, WriteErr(w2), r2, TRUE, f.ran,
                     IF w2 = "open" THEN {"go.mod"} ELSE {"go.mod", "mod.md5"})
       ELSE Resolved(f.mod, f.hash, NoErr, r2, TRUE, f.ran, {"go.mod", "mod.md5"})

\* Resolver.Resolve on resolver r; outcome, w1 and w2 are what the environment
\* does to fetchMod and to the writes of go.mod and of mod.md5.
Resolve(r, outcome, w1, w2) ==
    IF ReadFails(r.gomod) \/ ReadFails(r.md5)
    THEN LET f == fetchMod(r, outcome)
             r1 == [r EXCEPT !.gomod = AfterWrite(@, f.mod, w1)]
             r2 == [r1 EXCEPT !.md5 = AfterWrite(@, f.hash, w2)]
         IN IF f.err # NoErr
            THEN Resolved(Absent, Absent, f.err, r, TRUE, f.ran, {})
            ELSE IF w1 # "ok"
            THEN Resolved(Absent, Absent, WriteErr(w1), r1, TRUE, f.ran,
                          IF w1 = "open" THEN {} ELSE {"go.mod"})
            ELSE IF w2 # "ok"
            THEN Resolved(Absent, Absent, WriteErr(w2), r2, TRUE, f.ran,
                          IF w2 = "open" THEN {"go.mod"} ELSE {"go.mod", "mod.md5"})
            ELSE Resolved(f.mod, f.hash, NoErr, r2, TRUE, f.ran, {"go.mod", "mod.md5"})
    ELSE IF ~Parses(r.gomod)
         THEN Resolved(Absent, Absent, PlainErr("parse"), r, FALSE, FALSE, {})
         ELSE Resolved(r.gomod, r.md5, NoErr, r, FALSE, FALSE, {})

\* A resolver whose path holds the pair a Resolve with target "t" persisted.
ResolvedOnce == [target |-> "t", gomod |-> "m1", md5 |-> "h1", upstream |-> Upstream1]

-----------------------------------------------------------------------------
(* Paths of the plugin cache *)

\* What Resolve can return on resolver r, over everything the surroundings can
\* do to the fetch and to the two writes. One result when the pair is persisted.
Resolutions(r) ==
    { Resolve(r, outcome, w1, w2) :
         outcome \in FetchOutcomes, w1 \in WriteOutcomes, w2 \in WriteOutcomes }

\* A path is a sequence of segments, a segment a sequence of characters.
\* Config.Path of the cache.
CachePath == <<"cache">>

DotDot == <<".", ".">>

lockFileName == <<"cache.lock">>

\* base64.URLEncoding.EncodeToString of the hash bytes; no character for no byte.
B64(hash) ==
    CASE hash = "h1" -> <<"aDE=">>
      [] hash = "h2" -> <<"aDI=">>
      [] hash = "empty" -> <<>>
      [] OTHER -> <<"cGFydGlhbA==">>

RECURSIVE SplitFrom(_, _, _)
SplitFrom(s, cur, acc) ==
    IF s = <<>> THEN Append(acc, cur)
    ELSE IF Head(s) = "/" THEN SplitFrom(Tail(s), <<>>, Append(acc, cur))
    ELSE SplitFrom(Tail(s), Append(cur, Head(s)), acc)

\* The segments of a string, separated by '/'.
SplitPath(s) == SplitFrom(s, <<>>, <<>>)

RECURSIVE CleanFrom(_, _)
CleanFrom(done, rest) ==
    IF rest = <<>> THEN done
    ELSE LET seg == Head(rest)
         IN IF seg = <<>> \/ seg = <<".">> THEN CleanFrom(done, Tail(rest))
            ELSE IF seg = DotDot /\ done # <<>> /\ done[Len(done)] # DotDot
            THEN CleanFrom(SubSeq(done, 1, Len(done) - 1), Tail(rest))
            ELSE CleanFrom(Append(done, seg), Tail(rest))

\* filepath.Clean: empty and "." segments dropped, ".." takes the segment before it.
Clean(path) == CleanFrom(<<>>, path)

\* filepath.Join(dir, elem): the two joined by a separator, then cleaned.
Join(dir, elem) == Clean(dir \o SplitPath(elem))

\* getDir with the directory of one hash, whatever Resolve returned.
getDirFixed(rr) == Join(<<CachePath>>, B64("h1"))

\* PluginCache.getDir, after a Resolve that returned rr without an error.
getDir(rr) == Join(<<CachePath>>, B64(rr.hash))

\* fmt.Sprintf("%s-%s.so", name, version).
ArtifactFile(name, version) == name \o <<"-">> \o version \o <<".so">>

\* PluginCache.GetPath, after a Resolve that returned rr without an error.
GetPath(rr, name, version) == Join(getDir(rr), ArtifactFile(name, version))

\* The partition directory a path lies in.
PartitionOf(path) == SubSeq(path, 1, 2)

\* A name whose artifact file, joined to a partition directory, cleans to the
\* file of NameA in the partition of hash h1.
NameUp == DotDot \o <<"/">> \o B64("h1") \o <<"/">> \o NameA

CacheKeys == { Key(NameA, Ver1), Key(NameUp, Ver1) }

-----------------------------------------------------------------------------
(* The plugin compiler: PluginCompiler.CompilePlugin on the build tree of   *)
(* one descriptor key, and the loader of the compiled shared object         *)

\* The elements of a sequence.
Range(seq) == { seq[i] : i \in DOMAIN seq }

\* The ModelInfo values handed to the compiler, both of one (name, version):
\* each carries one YANG file of the same base name, with different data.
BuildInputs == { [id |-> "d1", yang |-> "y1"], [id |-> "d2", yang |-> "y2"] }

\* getSafeQualifiedName: "{name}_{version}" with every "." replaced by "_"; the
\* module directory of a descriptor is the directory of that name under BuildPath.
getSafeQualifiedName(name, version) ==
    LET q == name \o <<"_">> \o version
    IN [i \in DOMAIN q |-> IF q[i] = "." THEN "_" ELSE q[i]]

\* The keys of Keys, and two keys whose names differ in "." and "_" only.
DirKeys == Keys \cup { Key(<<"a", ".", "b">>, Ver1), Key(<<"a", "_", "b">>, Ver1) }

\* The build tree before anything was built: no build root, no module directory.
FreshBuild(skip) ==
    [skip |-> skip, root |-> FALSE, dir |-> FALSE, gomod |-> Absent, main |-> Absent,
     modeldir |-> FALSE, model |-> Absent, plugin |-> Absent, yangdir |-> FALSE,
     yang |-> Absent, generated |-> Absent, outdir |-> FALSE, out |-> Absent]

\* The steps of CompilePlugin, in the order of the code.
CompileSteps ==
    <<"mkroot", "mkdir", "gomod", "main", "mkmodel", "model", "plugin", "mkyang", "copy",
      "generator", "mkout", "tidy", "build", "clean">>

\* The step the surroundings make fail in one call, if any.
Faults == { CompileSteps[i] : i \in DOMAIN CompileSteps } \cup {"none"}

\* createDir: os.Stat, and os.MkdirAll (which makes the parents too) if the
\* directory is not there; an error of MkdirAll is logged and not returned.
createDir(b, which, failed) ==
    IF failed THEN b
    ELSE CASE which = "root" -> [b EXCEPT !.root = TRUE]
           [] which = "dir" -> [b EXCEPT !.root = TRUE, !.dir = TRUE]
           [] which = "modeldir" -> [b EXCEPT !.root = TRUE, !.dir = TRUE, !.modeldir = TRUE]
           [] which = "yangdir" -> [b EXCEPT !.root = TRUE, !.dir = TRUE, !.yangdir = TRUE]
           [] which = "outdir" -> [b EXCEPT !.outdir = TRUE]

\* What a step of CompilePlugin returns: the tree after it and its error.
Stepped(b, err) == [b |-> b, err |-> err]

\* fetchMod's and applyTemplate's write of a file of the module directory:
\* ioutil.WriteFile / os.Create fail when the directory is not there.
WriteIn(b, dirThere, failed, after) ==
    IF failed THEN Stepped(b, PlainErr("EACCES"))
    ELSE IF ~dirThere THEN Stepped(b, PlainErr("ENOENT"))
    ELSE Stepped(after, NoErr)

\* copyFiles that does not write the file.
copyFilesSkips(b, d, failed) == Stepped(b, NoErr)

\* copyFile for every entry of Files: the file is written only if os.Stat says
\* it does not exist.
copyFiles(b, d, failed) ==
    IF d.yang = Absent \/ b.yang # Absent THEN Stepped(b, NoErr)
    ELSE WriteIn(b, b.yangdir, failed, [b EXCEPT !.yang = d.yang])

\* cleanBuild that leaves the module directory in place.
cleanBuildKeeps(b, failed) == Stepped(b, NoErr)

\* cleanBuild: nothing with SkipCleanUp; else os.RemoveAll of the module
\* directory if os.Stat finds it.
cleanBuild(b, failed) ==
    IF b.skip \/ ~b.dir THEN Stepped(b, NoErr)
    ELSE IF failed THEN Stepped(b, PlainErr("EBUSY"))
    ELSE Stepped([b EXCEPT !.dir = FALSE, !.gomod = Absent, !.main = Absent,
                           !.modeldir = FALSE, !.model = Absent, !.plugin = Absent,
                           !.yangdir = FALSE, !.yang = Absent, !.generated = Absent],
                 NoErr)

\* One step of CompilePlugin on tree b for descriptor d; rr is what Resolve
\* returned to fetchMod, lenient whether `go build -o` makes a missing output
\* directory itself.
DoStep(step, b, d, fault, lenient, rr) ==
    LET failed == fault = step
    IN CASE step = "mkroot" -> Stepped(IF b.root THEN b ELSE createDir(b, "root", failed), NoErr)
         [] step = "mkdir" -> Stepped(IF b.dir THEN b ELSE createDir(b, "dir", failed), NoErr)
         [] step = "gomod" ->
              IF rr.err # NoErr THEN Stepped(b, rr.err)
              ELSE WriteIn(b, b.dir, failed, [b EXCEPT !.gomod = d.id])
         [] step = "main" -> WriteIn(b, b.dir, failed, [b EXCEPT !.main = d.id])
         [] step = "mkmodel" ->
              Stepped(IF b.modeldir THEN b ELSE createDir(b, "modeldir", failed), NoErr)
         [] step = "model" -> WriteIn(b, b.modeldir, failed, [b EXCEPT !.model = d.id])
         [] step = "plugin" -> WriteIn(b, b.modeldir, failed, [b EXCEPT !.plugin = d.id])
         [] step = "mkyang" ->
              Stepped(IF b.yangdir THEN b ELSE createDir(b, "yangdir", failed), NoErr)
         [] step = "copy" -> copyFiles(b, d, failed)
         [] step = "generator" ->
              IF failed \/ ~b.yangdir \/ ~b.modeldir THEN Stepped(b, PlainErr("exit"))
              ELSE Stepped([b EXCEPT !.generated = b.yang], NoErr)
         [] step = "mkout" ->
              Stepped(IF b.outdir THEN b ELSE createDir(b, "outdir", failed), NoErr)
         [] step = "tidy" ->
              IF failed \/ ~b.dir THEN Stepped(b, PlainErr("exit")) ELSE Stepped(b, NoErr)
         [] step = "build" ->
              IF failed \/ (~b.outdir /\ ~lenient) THEN Stepped(b, PlainErr("exit"))
              ELSE Stepped([b EXCEPT !.outdir = TRUE, !.out = "plugin"], NoErr)
         [] step = "clean" -> cleanBuild(b, failed)

\* The directory a createDir step is about, and whether tree b has it.
DirOf(step) ==
    CASE step = "mkroot" -> "root" [] step = "mkdir" -> "dir" [] step = "mkmodel" -> "modeldir"
      [] step = "mkyang" -> "yangdir" [] step = "mkout" -> "outdir" [] OTHER -> Absent

HasDir(b, which) ==
    CASE which = "root" -> b.root [] which = "dir" -> b.dir [] which = "modeldir" -> b.modeldir
      [] which = "yangdir" -> b.yangdir [] which = "outdir" -> b.outdir [] OTHER -> TRUE

\* Whether the operation of a step failed on tree b: it returned an error, or it
\* is a createDir whose MkdirAll failed.
StepFailed(step, b, fault, r) ==
    \/ r.err # NoErr
    \/ DirOf(step) # Absent /\ fault = step /\ ~HasDir(b, DirOf(step))

\* The subprocess a step starts, if any.
Subprocess(step) == IF step \in {"generator", "tidy", "build"} THEN {step} ELSE {}

\* CompilePlugin from step i on: each step in turn, stopping at the first error.
\* acc holds the tree, the error, the steps run, the steps whose operation
\* failed, the subprocesses started and the tree as the copy step left it.
RECURSIVE RunSteps(_, _, _, _, _, _)
RunSteps(i, acc, d, fault, lenient, rr) ==
    IF i > Len(CompileSteps) \/ acc.err # NoErr THEN acc
    ELSE LET step == CompileSteps[i]
             r == DoStep(step, acc.after, d, fault, lenient, rr)
         IN RunSteps(i + 1,
                     [after |-> r.b, err |-> r.err, steps |-> Append(acc.steps, step),
                      bad |-> IF StepFailed(step, acc.after, fault, r)
                              THEN acc.bad \cup {step} ELSE acc.bad,
                      ran |-> acc.ran \cup Subprocess(step),
                      copied |-> IF step = "copy" /\ r.err = NoErr
                                 THEN <<r.b>> ELSE acc.copied],
                     d, fault, lenient, rr)

\* PluginCompiler.CompilePlugin(d, output path) on build tree b.
CompilePlugin(b, d, fault, lenient, rr) ==
    RunSteps(1, [after |-> b, err |-> NoErr, steps |-> <<>>, bad |-> {}, ran |-> {},
                 copied |-> <<>>],
             d, fault, lenient, rr)

\* What the file at a path can be for the loader.
ObjectKinds == {Absent, "garbage", "nosymbol", "wrongtype", "plugin"}

\* modelplugin.Load(path): plugin.Open, Lookup of the symbol, type assertion.
Load(kind) ==
    CASE kind \in {Absent, "garbage"} -> PlainErr("plugin.Open")
      [] kind = "nosymbol" -> PlainErr("plugin.Lookup")
      [] kind = "wrongtype" -> TypedErr("Invalid")
      [] kind = "plugin" -> NoErr

-----------------------------------------------------------------------------
(* RegSpec: a caller of the registry API *)

Call(op, key, model, pre, err, out) ==
    [op |-> op, key |-> key, model |-> model, pre |-> pre, err |-> err, out |-> out]

Workers == {"w1", "w2", "w3"}
Procs == {"p1", "p2"}
Nil == "nil"

\* Workers w1 and w2 are goroutines of one server process and share its
\* PluginCache; w3 serves in another process on the same file system.
ProcOf(w) == IF w = "w3" THEN "p2" ELSE "p1"

NoReq == [op |-> "none", key |-> Key(Empty, Empty), hasModel |-> FALSE]
NewFlock == [l |-> FALSE, r |-> FALSE, fh |-> FALSE]

\* The keys callers of Entry ask for; two of them format to the same map key.
EntryKeys == { Key(NameA, Ver1), Key(NameAB, Ver1), Key(NameA, VerB1) }

\* Entry: path := fmt.Sprintf("%s-%s", name, version), the key of the entries map.
EntryPath(name, version) == name \o <<"-">> \o version

\* What the entries map gives for a key it does not hold: a nil *PluginEntry.
NoEntry == [at |-> <<>>, Path |-> <<>>, lock |-> <<>>]

\* NewPluginCache: entries: make(map[string]*PluginEntry).
NoEntries == [path \in { EntryPath(k.name, k.version) : k \in EntryKeys } |-> NoEntry]

\* NewPluginCache: config.Path joined with the encoded hash of the resolved module.
EntryDir == Join(<<CachePath>>, B64("h1"))

\* newPluginEntry, allocated at address at for a cache whose Config.Path is dir.
newPluginEntry(at, dir, name, version) ==
    [at |-> at,
     Path |-> Join(dir, EntryPath(name, version) \o <<".so">>),
     lock |-> Join(dir, EntryPath(name, version) \o <<".lock">>)]

\* The address of the next PluginEntry process p allocates.
NewAddress(hp, p) == <<p, Cardinality({ e \in hp : e.at[1] = p }) + 1>>

\* Entry without the second look at the map under c.mu.Lock.
EntryLockedNoRecheck(es, hp, p, name, version) ==
    LET entry == newPluginEntry(NewAddress(hp, p), EntryDir, name, version)
    IN [entries |-> [es EXCEPT ![EntryPath(name, version)] = entry],
        heap |-> hp \cup {entry}, entry |-> entry]

\* Entry from c.mu.Lock() to the deferred c.mu.Unlock(): look again, and create
\* and store the entry only if the map still has none.
EntryLocked(es, hp, p, name, version) ==
    IF es[EntryPath(name, version)] # NoEntry
    THEN [entries |-> es, heap |-> hp, entry |-> es[EntryPath(name, version)]]
    ELSE LET entry == newPluginEntry(NewAddress(hp, p), EntryDir, name, version)
         IN [entries |-> [es EXCEPT ![EntryPath(name, version)] = entry],
             heap |-> hp \cup {entry}, entry |-> entry]

ServerIdle ==
    /\ cacheLock = [p \in Procs |-> Nil]
    /\ flock = [f \in Workers |-> NewFlock]
    /\ mode = [f \in Workers |-> "un"]
    /\ pc = [w \in Workers |-> "idle"]
    /\ req = [w \in Workers |-> NoReq]
    /\ lk = [w \in Workers |-> Nil]
    /\ res = [w \in Workers |-> "none"]
    /\ did = [w \in Workers |-> {}]
    /\ files = [w \in Workers |-> <<>>]
    /\ nreq = 0
    /\ lockFile = [f \in Workers |-> <<>>]
    /\ cancelled = {}
    /\ rd = [w \in Workers |-> NoRead]
    /\ entries = [p \in Procs |-> NoEntries]
    /\ heap = {}

RegInit ==
    /\ build = FreshBuild(FALSE)
    /\ registry = EmptyRegistry
    /\ registry0 = EmptyRegistry
    /\ hist = <<>>
    /\ ServerIdle
    /\ artifacts = {}
    /\ resolver = ResolvedOnce

RegAdd(model) ==
    /\ Len(hist) < MaxOps
    /\ UNCHANGED compVars
    /\ LET r == AddModel(registry, model)
       IN /\ registry' = r.reg
          /\ hist' = Append(hist, Call("Add", KeyOf(model), model, registry, r.err, <<>>))
    /\ UNCHANGED <<serverVars, registry0, envVars>>

RegRemove(k) ==
    /\ Len(hist) < MaxOps
    /\ UNCHANGED compVars
    /\ LET r == RemoveModel(registry, k.name, k.version)
       IN /\ registry' = r.reg
          /\ hist' = Append(hist, Call("Remove", k, ZeroModel, registry, r.err, <<>>))
    /\ UNCHANGED <<serverVars, registry0, envVars>>

RegGet(k) ==
    /\ Len(hist) < MaxOps
    /\ UNCHANGED compVars
    /\ LET r == GetModel(registry, k.name, k.version)
       IN hist' = Append(hist, Call("Get", k, ZeroModel, registry, r.err, <<r.model>>))
    /\ UNCHANGED <<serverVars, registry, registry0, envVars>>

RegList ==
    /\ Len(hist) < MaxOps
    /\ UNCHANGED compVars
    /\ LET r == ListModels(registry)
       IN hist' = Append(hist, Call("List", Key(Empty, Empty), ZeroModel, registry, r.err, r.models))
    /\ UNCHANGED <<serverVars, registry, registry0, envVars>>

RegNext ==
    \/ \E model \in Descriptors : RegAdd(model)
    \/ \E k \in Keys : RegRemove(k)
    \/ \E k \in Keys : RegGet(k)
    \/ RegList

RegSpec == RegInit /\ [][RegNext]_vars

-----------------------------------------------------------------------------
(* ResSpec: callers of Resolve, one call at a time, and the surroundings *)

\* A call of Resolve in the history: the resolver before it and its result.
ResolveCall(pre, r) ==
    [op |-> "Resolve", pre |-> pre, mod |-> r.mod, hash |-> r.hash, err |-> r.err,
     fetched |-> r.fetched, ran |-> r.ran, wrote |-> r.wrote]

\* A change made under the resolver path or in the module cache by someone else.
Change(op, pre) == [op |-> op, pre |-> pre]

ResInit ==
    /\ build = FreshBuild(FALSE)
    /\ registry = EmptyRegistry
    /\ registry0 = EmptyRegistry
    /\ hist = <<>>
    /\ ServerIdle
    /\ artifacts = {}
    /\ resolver \in [target : Targets, gomod : GoModContents, md5 : HashContents,
                     upstream : Upstreams]

ResResolve(outcome, w1, w2) ==
    /\ Len(hist) < MaxResOps
    /\ UNCHANGED compVars
    /\ LET r == Resolve(resolver, outcome, w1, w2)
       IN /\ resolver' = r.after
          /\ hist' = Append(hist, ResolveCall(resolver, r))
    /\ UNCHANGED <<serverVars, registry, registry0, lockFile>>

\* A call of PluginCache.GetPath in the history.
GetPathCall(pre, k, r) ==
    [op |-> "GetPath", pre |-> pre, key |-> k, hash |-> r.hash, err |-> r.err,
     path |-> IF r.err = NoErr THEN GetPath(r, k.name, k.version) ELSE <<>>,
     fetched |-> r.fetched, ran |-> r.ran, wrote |-> r.wrote]

\* The operator removes go.mod or mod.md5.
ResRemove(file) ==
    /\ Len(hist) < MaxResOps
    /\ UNCHANGED compVars
    /\ resolver' = IF file = "go.mod" THEN [resolver EXCEPT !.gomod = Absent]
                   ELSE [resolver EXCEPT !.md5 = Absent]
    /\ resolver' # resolver
    /\ hist' = Append(hist, Change("Remove", resolver))
    /\ UNCHANGED <<serverVars, registry, registry0, lockFile>>

\* A new version of the target is published.
ResPublish(up) ==
    /\ Len(hist) < MaxResOps
    /\ UNCHANGED compVars
    /\ up # resolver.upstream
    /\ resolver' = [resolver EXCEPT !.upstream = up]
    /\ hist' = Append(hist, Change("Publish", resolver))
    /\ UNCHANGED <<serverVars, registry, registry0, lockFile>>

ResNext ==
    \/ \E outcome \in FetchOutcomes, w1 \in WriteOutcomes, w2 \in WriteOutcomes :
          ResResolve(outcome, w1, w2)
    \/ \E file \in {"go.mod", "mod.md5"} : ResRemove(file)
    \/ \E up \in Upstreams : ResPublish(up)

ResSpec == ResInit /\ [][ResNext]_vars

-----------------------------------------------------------------------------
(* PathSpec: callers of PluginCache.GetPath on a resolver path whose files *)
(* come and go                                                             *)

\* PluginCache.GetPath(name, version): getDir calls Resolve, then the path is joined.
PathGetPath(k, outcome, w1, w2) ==
    /\ Len(hist) < MaxPathOps
    /\ UNCHANGED compVars
    /\ LET r == Resolve(resolver, outcome, w1, w2)
       IN /\ resolver' = r.after
          /\ hist' = Append(hist, GetPathCall(resolver, k, r))
    /\ UNCHANGED <<serverVars, registry, registry0, lockFile>>

PathRemove(file) == Len(hist) < MaxPathOps /\ ResRemove(file)

PathPublish(up) == Len(hist) < MaxPathOps /\ ResPublish(up)

PathNext ==
    \/ \E k \in CacheKeys, outcome \in FetchOutcomes, w1 \in WriteOutcomes,
          w2 \in WriteOutcomes : PathGetPath(k, outcome, w1, w2)
    \/ \E file \in {"go.mod", "mod.md5"} : PathRemove(file)
    \/ \E up \in Upstreams : PathPublish(up)

PathSpec == ResInit /\ [][PathNext]_vars

-----------------------------------------------------------------------------
(* The plugin cache lock: PluginCache over one gofrs/flock Flock object *)

FlockIds == Workers

\* flock(fd, LOCK_EX|LOCK_NB) succeeds unless another open file description of
\* the same lock file holds a lock.
CanLockEx(f) ==
    \A g \in FlockIds \ {f} : lockFile[g] = lockFile[f] => mode[g] = "un"

\* flock(fd, LOCK_SH|LOCK_NB) succeeds unless another open file description of
\* the same lock file holds the exclusive lock.
CanLockSh(f) ==
    \A g \in FlockIds \ {f} : lockFile[g] = lockFile[f] => mode[g] # "ex"

\* Flock.TryLock on object f: an object already marked locked answers true
\* without a system call; otherwise the lock is taken if the kernel grants it.
TryLockGranted(f) == flock[f].l \/ CanLockEx(f)

AfterTryLock(f) ==
    IF flock[f].l THEN flock
    ELSE [flock EXCEPT ![f] = [l |-> TRUE, r |-> flock[f].r, fh |-> TRUE]]

ModeAfterTryLock(f) == IF flock[f].l THEN mode ELSE [mode EXCEPT ![f] = "ex"]

\* Flock.TryRLock on object f: the same with the flag r and LOCK_SH. On an
\* object whose handle holds the exclusive lock, flock(2) converts that lock.
TryRLockGranted(f) == flock[f].r \/ CanLockSh(f)

AfterTryRLock(f) ==
    IF flock[f].r THEN flock
    ELSE [flock EXCEPT ![f] = [l |-> flock[f].l, r |-> TRUE, fh |-> TRUE]]

ModeAfterTryRLock(f) == IF flock[f].r THEN mode ELSE [mode EXCEPT ![f] = "sh"]

\* Flock.Unlock on object f: nothing if it is not marked locked or has no handle.
UnlockIsNoop(f) == (~flock[f].l /\ ~flock[f].r) \/ ~flock[f].fh

AfterUnlock(f) == IF UnlockIsNoop(f) THEN flock ELSE [flock EXCEPT ![f] = NewFlock]

ModeAfterUnlock(f) == IF UnlockIsNoop(f) THEN mode ELSE [mode EXCEPT ![f] = "un"]

\* PluginCache.Unlock in process p: getLock returns c.lock, which is unlocked.
UnlockTarget(p) == cacheLock[p]

\* PluginCache.IsRLocked in process p.
IsRLocked(p) == cacheLock[p] # Nil /\ (flock[cacheLock[p]].l \/ flock[cacheLock[p]].r)

-----------------------------------------------------------------------------
(* Spec: the gRPC server's workers *)

\* The keys requests name.
ReqKeys == { Key(NameA, Ver1), Key(NameAB, Ver1) }

PushReq(k) == [op |-> "Push", key |-> k, hasModel |-> TRUE]
\* A PushModelRequest whose Model field is not set.
PushNoModel == [op |-> "Push", key |-> Key(Empty, Empty), hasModel |-> FALSE]
GetReq(k) == [op |-> "Get", key |-> k, hasModel |-> FALSE]
DeleteReq(k) == [op |-> "Delete", key |-> k, hasModel |-> FALSE]
ListReq == [op |-> "List", key |-> Key(Empty, Empty), hasModel |-> FALSE]

PushReqs == { PushReq(k) : k \in ReqKeys } \cup { PushNoModel }

\* Registry directories a server can start on: each key absent or registered.
InitialRegistries ==
    { [f \in DescFiles |->
          IF \E k \in S : f = getDescriptorFile(k.name, k.version)
          THEN MarshalIndent(Plain(CHOOSE k \in S : f = getDescriptorFile(k.name, k.version)))
          ELSE NoFile] : S \in SUBSET ReqKeys }

\* Cache partitions a server can start on: empty, or holding the artifact an
\* earlier run compiled for a key.
InitialArtifacts ==
    { {}, { GetPath(rr, NameA, Ver1) : rr \in Resolutions(ResolvedOnce) } }

Init ==
    /\ build = FreshBuild(FALSE)
    /\ registry \in InitialRegistries
    /\ registry0 = registry
    /\ hist = <<>>
    /\ ServerIdle
    /\ artifacts \in InitialArtifacts
    /\ resolver = ResolvedOnce

Begin(w, r) ==
    /\ pc[w] = "idle"
    /\ nreq < MaxReqs
    /\ req' = [req EXCEPT ![w] = r]
    /\ nreq' = nreq + 1

Return(w, status) ==
    /\ pc' = [pc EXCEPT ![w] = "idle"]
    /\ res' = [res EXCEPT ![w] = status]
    /\ lk' = [lk EXCEPT ![w] = Nil]

cacheVars == <<artifacts, cacheLock, flock, mode>>

\* Server.GetModel: one read of the descriptor file.
ServeGet(w, k) ==
    /\ Begin(w, GetReq(k))
    /\ UNCHANGED compVars
    /\ did' = [did EXCEPT ![w] = {}]
    /\ res' = [res EXCEPT ![w] = Status(GetModel(registry, k.name, k.version).err)]
    /\ UNCHANGED <<registry, cacheVars, pc, lk, files, registry0, hist, envVars>>

\* Server.DeleteModel, RemoveModel's os.Stat.
DeleteStat(w, k) ==
    /\ Begin(w, DeleteReq(k))
    /\ UNCHANGED compVars
    /\ did' = [did EXCEPT ![w] = {}]
    /\ IF FileExists(registry, getDescriptorFile(k.name, k.version))
       THEN /\ pc' = [pc EXCEPT ![w] = "remove"]
            /\ res' = [res EXCEPT ![w] = "none"]
       ELSE /\ pc' = pc
            /\ res' = [res EXCEPT ![w] = Status(NoErr)]
    /\ UNCHANGED <<registry, cacheVars, lk, files, registry0, hist, envVars>>

\* Server.DeleteModel, RemoveModel's os.Remove of the file os.Stat found.
DeleteRemove(w) ==
    /\ pc[w] = "remove"
    /\ UNCHANGED compVars
    /\ LET path == getDescriptorFile(req[w].key.name, req[w].key.version)
       IN IF FileExists(registry, path)
          THEN /\ registry' = [registry EXCEPT ![path] = NoFile]
               /\ Return(w, Status(NoErr))
          ELSE /\ registry' = registry
               /\ Return(w, Status(PlainErr("ENOENT")))
    /\ UNCHANGED <<cacheVars, req, did, files, nreq, registry0, hist, envVars>>

\* Server.ListModels, loadModels' filepath.Walk.
ListWalk(w) ==
    /\ Begin(w, ListReq)
    /\ UNCHANGED compVars
    /\ did' = [did EXCEPT ![w] = {}]
    /\ files' = [files EXCEPT ![w] = Walk(registry)]
    /\ pc' = [pc EXCEPT ![w] = "load"]
    /\ res' = [res EXCEPT ![w] = "none"]
    /\ UNCHANGED <<registry, cacheVars, lk, registry0, hist, envVars>>

\* Server.ListModels, loadModels' loop: load the next file, or return.
ListLoad(w) ==
    /\ pc[w] = "load"
    /\ UNCHANGED compVars
    /\ IF files[w] = <<>>
       THEN /\ Return(w, Status(NoErr))
            /\ files' = files
       ELSE LET r == loadModel(registry, Head(files[w]))
            IN IF r.err # NoErr
               THEN /\ Return(w, Status(r.err))
                    /\ files' = [files EXCEPT ![w] = <<>>]
               ELSE /\ files' = [files EXCEPT ![w] = Tail(@)]
                    /\ UNCHANGED <<pc, res, lk>>
    /\ UNCHANGED <<registry, cacheVars, req, did, nreq, registry0, hist, envVars>>

\* PushModel -> Lock -> getLock: read c.lock under the read lock of c.mu.
PushGetLock(w, r) ==
    /\ Begin(w, r)
    /\ UNCHANGED compVars
    /\ did' = [did EXCEPT ![w] = {}]
    /\ res' = [res EXCEPT ![w] = "none"]
    /\ IF cacheLock[ProcOf(w)] # Nil
       THEN /\ lk' = [lk EXCEPT ![w] = cacheLock[ProcOf(w)]]
            /\ pc' = [pc EXCEPT ![w] = "tryLock"]
       ELSE /\ lk' = lk
            /\ pc' = [pc EXCEPT ![w] = "newLock"]
    /\ UNCHANGED <<registry, cacheVars, files, registry0, hist, envVars>>

\* getLock under the write lock of c.mu, c.lock having been nil when read: resolve
\* the directory, create it and the lock file, and store a new Flock in c.lock.
\* An error of Resolve, MkdirAll or Create is returned by Lock and by PushModel.
PushNewLock(w) ==
    /\ pc[w] = "newLock"
    /\ UNCHANGED compVars
    /\ \E rr \in Resolutions(resolver), ok \in BOOLEAN :
          /\ resolver' = rr.after
          /\ IF rr.err = NoErr /\ ok
             THEN /\ flock' = [flock EXCEPT ![w] = NewFlock]
                  /\ lockFile' = [lockFile EXCEPT ![w] = Join(getDir(rr), lockFileName)]
                  /\ cacheLock' = [cacheLock EXCEPT ![ProcOf(w)] = w]
                  /\ lk' = [lk EXCEPT ![w] = w]
                  /\ pc' = [pc EXCEPT ![w] = "tryLock"]
                  /\ res' = res
             ELSE /\ Return(w, Status(IF rr.err # NoErr THEN rr.err ELSE PlainErr("EIO")))
                  /\ UNCHANGED <<flock, cacheLock, lockFile>>
    /\ UNCHANGED <<registry, artifacts, mode, req, did, files, nreq, registry0, hist>>

\* Lock's TryLockContext(context.Background(), lockAttemptDelay): an attempt that
\* succeeds. A refused attempt changes nothing and is repeated after the delay.
PushTryLock(w) ==
    /\ pc[w] = "tryLock"
    /\ UNCHANGED compVars
    /\ TryLockGranted(lk[w])
    /\ flock' = AfterTryLock(lk[w])
    /\ mode' = ModeAfterTryLock(lk[w])
    /\ pc' = [pc EXCEPT ![w] = "locked"]
    /\ did' = [did EXCEPT ![w] = @ \cup {"lock"}]
    /\ UNCHANGED <<registry, artifacts, cacheLock, req, lk, res, files, nreq, registry0, hist, envVars>>

\* The pre-existence check without the assignment of AlreadyExists.
PreCheckKeepsNil(found) == found.err

\* PushModel lines 149-152: a model that is found is an AlreadyExists error.
PreCheck(found) == IF found.err = NoErr THEN TypedErr("AlreadyExists") ELSE found.err

\* What the lookup of step 2 met.
Met(found, path) ==
    IF found.err = NoErr THEN "present"
    ELSE IF ~FileExists(registry, path) THEN "absent"
    ELSE "unreadable"

\* PushModel lines 146-156. A request without Model panics at line 146.
PushPreCheck(w) ==
    IF ~req[w].hasModel
    THEN /\ pc' = [pc EXCEPT ![w] = "panic"]
         /\ UNCHANGED <<registry, cacheVars, req, lk, res, did, files, nreq, registry0, hist, envVars>>
    ELSE LET k == req[w].key
             found == GetModel(registry, k.name, k.version)
             err == PreCheck(found)
         IN /\ did' = [did EXCEPT ![w] =
                         @ \cup {"precheck", Met(found, getDescriptorFile(k.name, k.version))}]
            /\ IF err # NoErr /\ ~IsNotFound(err)
               THEN /\ res' = [res EXCEPT ![w] = Status(err)]
                    /\ pc' = [pc EXCEPT ![w] = "unlock"]
               ELSE /\ res' = res
                    /\ pc' = [pc EXCEPT ![w] = "cached"]
            /\ UNCHANGED <<registry, cacheVars, req, lk, files, nreq, registry0, hist, envVars>>

\* PushModel lines 158-185: the descriptor built from the request.
BuildModelInfo(r) == Plain(r.key)

\* PushModel lines 187-192: cache.Cached.
PushCached(w) ==
    /\ did' = [did EXCEPT ![w] = @ \cup {"cached"}]
    /\ IF ~IsRLocked(ProcOf(w))
       THEN /\ res' = [res EXCEPT ![w] = Status(TypedErr("Conflict"))]
            /\ pc' = [pc EXCEPT ![w] = "unlock"]
            /\ resolver' = resolver
       ELSE \E rr \in Resolutions(resolver) :
               /\ resolver' = rr.after
               /\ IF rr.err # NoErr
                  THEN /\ res' = [res EXCEPT ![w] = Status(rr.err)]
                       /\ pc' = [pc EXCEPT ![w] = "unlock"]
                  ELSE /\ res' = res
                       /\ pc' = [pc EXCEPT ![w] =
                                   IF GetPath(rr, req[w].key.name, req[w].key.version)
                                         \in artifacts
                                   THEN "add" ELSE "compile"]
    /\ UNCHANGED <<registry, cacheVars, req, lk, files, nreq, registry0, hist, lockFile>>

\* PushModel lines 195-206: CompilePlugin writes the artifact at GetPath or fails.
PushCompile(w) ==
    /\ did' = [did EXCEPT ![w] = @ \cup {"compile"}]
    /\ \E rr \in Resolutions(resolver), ok \in BOOLEAN :
          /\ resolver' = rr.after
          /\ IF rr.err = NoErr /\ ok
             THEN /\ artifacts' = artifacts
                                    \cup {GetPath(rr, req[w].key.name, req[w].key.version)}
                  /\ res' = res
                  /\ pc' = [pc EXCEPT ![w] = "add"]
             ELSE /\ artifacts' = artifacts
                  /\ res' = [res EXCEPT ![w] =
                                Status(IF rr.err # NoErr THEN rr.err ELSE PlainErr("compile"))]
                  /\ pc' = [pc EXCEPT ![w] = "unlock"]
    /\ UNCHANGED <<registry, cacheLock, flock, mode, req, lk, files, nreq, registry0, hist,
                   lockFile>>

\* PushModel lines 208-216: AddModel, then the response.
PushAdd(w) ==
    LET r == AddModel(registry, BuildModelInfo(req[w]))
    IN /\ did' = [did EXCEPT ![w] = @ \cup {"add"}]
       /\ registry' = r.reg
       /\ res' = [res EXCEPT ![w] = Status(r.err)]
       /\ pc' = [pc EXCEPT ![w] = "unlock"]
       /\ UNCHANGED <<cacheVars, req, lk, files, nreq, registry0, hist, envVars>>

\* PushModel between Lock returning and the deferred functions: one statement
\* group of lines 146-216 at a time.
PushStep(w) ==
    /\ pc[w] \in {"locked", "cached", "compile", "add"}
    /\ UNCHANGED compVars
    /\ CASE pc[w] = "locked" -> PushPreCheck(w)
         [] pc[w] = "cached" -> PushCached(w)
         [] pc[w] = "compile" -> PushCompile(w)
         [] pc[w] = "add" -> PushAdd(w)

\* The deferred function of lines 140-144: cache.Unlock. After a panic the
\* deferred function of lines 134-138 runs next; otherwise PushModel returns.
PushUnlock(w) ==
    /\ pc[w] \in {"unlock", "panic"}
    /\ UNCHANGED compVars
    /\ flock' = AfterUnlock(UnlockTarget(ProcOf(w)))
    /\ mode' = ModeAfterUnlock(UnlockTarget(ProcOf(w)))
    /\ IF pc[w] = "panic"
       THEN /\ pc' = [pc EXCEPT ![w] = "recover"]
            /\ UNCHANGED <<res, lk>>
       ELSE Return(w, res[w])
    /\ UNCHANGED <<registry, artifacts, cacheLock, req, did, files, nreq, registry0, hist, envVars>>

\* The deferred function of lines 134-138 after a panic: recover, cache.Unlock
\* again; PushModel then returns its zero results, a nil response and a nil error.
PushRecover(w) ==
    /\ pc[w] = "recover"
    /\ UNCHANGED compVars
    /\ flock' = AfterUnlock(UnlockTarget(ProcOf(w)))
    /\ mode' = ModeAfterUnlock(UnlockTarget(ProcOf(w)))
    /\ Return(w, Status(NoErr))
    /\ UNCHANGED <<registry, artifacts, cacheLock, req, did, files, nreq, registry0, hist, envVars>>

\* A Flock object nothing refers to any more is collected; the finalizer of its
\* os.File closes the handle, and the kernel drops the lock of that open file.
Unreferenced(f) == (\A p \in Procs : cacheLock[p] # f) /\ (\A w \in Workers : lk[w] # f)

Finalize(f) ==
    /\ flock[f].fh
    /\ UNCHANGED compVars
    /\ Unreferenced(f)
    /\ flock' = [flock EXCEPT ![f] = [@ EXCEPT !.fh = FALSE]]
    /\ mode' = [mode EXCEPT ![f] = "un"]
    /\ UNCHANGED <<registry, artifacts, cacheLock, pc, req, lk, res, did, files, nreq,
                   registry0, hist, envVars>>

Next ==
    \/ \E w \in Workers, k \in ReqKeys : ServeGet(w, k)
    \/ \E w \in Workers, k \in ReqKeys : DeleteStat(w, k)
    \/ \E w \in Workers : DeleteRemove(w)
    \/ \E w \in Workers : ListWalk(w)
    \/ \E w \in Workers : ListLoad(w)
    \/ \E w \in Workers, r \in PushReqs : PushGetLock(w, r)
    \/ \E w \in Workers : PushNewLock(w)
    \/ \E w \in Workers : PushTryLock(w)
    \/ \E w \in Workers : PushStep(w)
    \/ \E w \in Workers : PushUnlock(w)
    \/ \E w \in Workers : PushRecover(w)
    \/ \E f \in FlockIds : Finalize(f)

Spec == Init /\ [][Next]_vars

\* The goroutine of a PushModel keeps running: getLock, the statements between
\* Lock and the deferred functions, and the deferred functions are taken when
\* they can be, and the retry loop of TryLockContext, which tries again after
\* every lockAttemptDelay, gets the lock if it is free again and again. The
\* collection of an unreferenced Flock is not something the program schedules.
PushFairness ==
    \A w \in Workers :
       /\ WF_vars(PushNewLock(w))
       /\ SF_vars(PushTryLock(w))
       /\ WF_vars(PushStep(w))
       /\ WF_vars(PushUnlock(w))
       /\ WF_vars(PushRecover(w))

\* The steps of Spec that belong to PushModel and to the lock.
PushNext ==
    \/ \E w \in Workers, r \in PushReqs : PushGetLock(w, r)
    \/ \E w \in Workers : PushNewLock(w)
    \/ \E w \in Workers : PushTryLock(w)
    \/ \E w \in Workers : PushStep(w)
    \/ \E w \in Workers : PushUnlock(w)
    \/ \E w \in Workers : PushRecover(w)
    \/ \E f \in FlockIds : Finalize(f)

FairSpec == Init /\ [][PushNext]_vars /\ PushFairness

-----------------------------------------------------------------------------
(* CacheSpec: callers of the PluginCache API in two processes *)

LockReq == [op |-> "Lock", key |-> Key(Empty, Empty), hasModel |-> FALSE]
RLockReq == [op |-> "RLock", key |-> Key(Empty, Empty), hasModel |-> FALSE]

\* The resolver path after `init` persisted the pair of upstream up.
Persisted(up) == [target |-> "t", gomod |-> up.mod, md5 |-> up.hash, upstream |-> up]

\* What a caller holds by its own calls: Lock or RLock returned, no Unlock since.
Holds(w) == IF pc[w] = "locked" THEN "ex" ELSE IF pc[w] = "rlocked" THEN "sh" ELSE "none"

\* A call of the cache API in the history: the caller, what it held, whether a
\* caller of its process held a lock, the hash
\* Resolve returned, the path GetPath returned, and the results.
CacheCall(op, w, k, hash, path, err, cached) ==
    [op |-> op, w |-> w, key |-> k, held |-> Holds(w),
     procHeld |-> \E v \in Workers : ProcOf(v) = ProcOf(w) /\ Holds(v) # "none",
     hash |-> hash, path |-> path, exists |-> path \in artifacts, err |-> err,
     cached |-> cached]

NoKey == Key(Empty, Empty)

CacheInit ==
    /\ build = FreshBuild(FALSE)
    /\ registry = EmptyRegistry
    /\ registry0 = EmptyRegistry
    /\ hist = <<>>
    /\ ServerIdle
    /\ artifacts \in InitialArtifacts
    /\ resolver = ResolvedOnce

cacheIdle == <<registry, registry0, res, did, files>>

\* A caller starts a call of the API.
Start ==
    /\ nreq < MaxCacheOps
    /\ nreq' = nreq + 1

\* Lock or RLock -> getLock: read c.lock under the read lock of c.mu.
CacheGetLock(w, r) ==
    /\ pc[w] = "idle"
    /\ UNCHANGED compVars
    /\ Start
    /\ req' = [req EXCEPT ![w] = r]
    /\ IF cacheLock[ProcOf(w)] # Nil
       THEN /\ lk' = [lk EXCEPT ![w] = cacheLock[ProcOf(w)]]
            /\ pc' = [pc EXCEPT ![w] = "tryLock"]
       ELSE /\ lk' = lk
            /\ pc' = [pc EXCEPT ![w] = "newLock"]
    /\ UNCHANGED <<cacheIdle, cacheVars, hist, envVars>>

\* getLock under the write lock of c.mu: getDir, MkdirAll, Create, flock.New.
CacheNewLock(w) ==
    /\ pc[w] = "newLock"
    /\ UNCHANGED compVars
    /\ \E rr \in Resolutions(resolver), ok \in BOOLEAN :
          /\ resolver' = rr.after
          /\ IF rr.err = NoErr /\ ok
             THEN /\ flock' = [flock EXCEPT ![w] = NewFlock]
                  /\ lockFile' = [lockFile EXCEPT ![w] = Join(getDir(rr), lockFileName)]
                  /\ cacheLock' = [cacheLock EXCEPT ![ProcOf(w)] = w]
                  /\ lk' = [lk EXCEPT ![w] = w]
                  /\ pc' = [pc EXCEPT ![w] = "tryLock"]
                  /\ hist' = hist
             ELSE /\ pc' = [pc EXCEPT ![w] = "idle"]
                  /\ hist' = Append(hist, CacheCall(req[w].op, w, NoKey, rr.hash, <<>>,
                                       IF rr.err # NoErr THEN rr.err ELSE PlainErr("EIO"),
                                       FALSE))
                  /\ UNCHANGED <<flock, cacheLock, lockFile, lk>>
    /\ UNCHANGED <<cacheIdle, nreq, artifacts, mode, req>>

\* Whether an attempt of w's TryLockContext / TryRLockContext gets the lock.
Granted(w) == IF req[w].op = "Lock" THEN TryLockGranted(lk[w]) ELSE TryRLockGranted(lk[w])

\* An attempt that is refused: the loop of TryLockContext(context.Background(),
\* lockAttemptDelay) waits for the delay and tries again.
CacheWait(w) ==
    /\ pc[w] = "tryLock"
    /\ ~Granted(w)
    /\ pc' = [pc EXCEPT ![w] = "blocked"]
    /\ UNCHANGED <<cacheIdle, cacheVars, hist, envVars, nreq, req, lk, compVars>>

\* The request on behalf of which w called Lock or RLock is cancelled while w
\* waits; Lock and RLock take no context of the caller.
CacheCancel(w) ==
    /\ pc[w] = "blocked"
    /\ w \notin cancelled
    /\ cancelled' = cancelled \cup {w}
    /\ UNCHANGED <<cacheIdle, cacheVars, hist, envVars, nreq, req, lk, pc, build, rd, entryVars>>

\* Lock's or RLock's TryLockContext / TryRLockContext: an attempt that succeeds,
\* the first one or one made after a delay.
CacheTryLock(w) ==
    /\ pc[w] \in {"tryLock", "blocked"}
    /\ UNCHANGED compVars
    /\ IF req[w].op = "Lock"
       THEN /\ TryLockGranted(lk[w])
            /\ flock' = AfterTryLock(lk[w])
            /\ mode' = ModeAfterTryLock(lk[w])
            /\ pc' = [pc EXCEPT ![w] = "locked"]
       ELSE /\ TryRLockGranted(lk[w])
            /\ flock' = AfterTryRLock(lk[w])
            /\ mode' = ModeAfterTryRLock(lk[w])
            /\ pc' = [pc EXCEPT ![w] = "rlocked"]
    /\ hist' = Append(hist, CacheCall(req[w].op, w, NoKey, Absent, <<>>, NoErr, FALSE))
    /\ UNCHANGED <<cacheIdle, nreq, artifacts, cacheLock, req, lk, envVars>>

\* Unlock or RUnlock by a caller whose Lock or RLock returned.
CacheUnlock(w) ==
    /\ pc[w] \in {"locked", "rlocked"}
    /\ cancelled' = cancelled \ {w}
    /\ UNCHANGED <<build, rd, entryVars>>
    /\ Start
    /\ flock' = AfterUnlock(UnlockTarget(ProcOf(w)))
    /\ mode' = ModeAfterUnlock(UnlockTarget(ProcOf(w)))
    /\ pc' = [pc EXCEPT ![w] = "idle"]
    /\ lk' = [lk EXCEPT ![w] = Nil]
    /\ hist' = Append(hist, CacheCall("Unlock", w, NoKey, Absent, <<>>, NoErr, FALSE))
    /\ UNCHANGED <<cacheIdle, artifacts, cacheLock, req, envVars>>

\* PluginCache.Cached(name, version).
CacheCached(w, k) ==
    /\ pc[w] \in {"idle", "locked", "rlocked"}
    /\ UNCHANGED compVars
    /\ Start
    /\ IF ~IsRLocked(ProcOf(w))
       THEN /\ hist' = Append(hist, CacheCall("Cached", w, k, Absent, <<>>,
                                              TypedErr("Conflict"), FALSE))
            /\ resolver' = resolver
       ELSE \E rr \in Resolutions(resolver) :
               /\ resolver' = rr.after
               /\ hist' = Append(hist,
                     IF rr.err # NoErr
                     THEN CacheCall("Cached", w, k, rr.hash, <<>>, rr.err, FALSE)
                     ELSE CacheCall("Cached", w, k, rr.hash, GetPath(rr, k.name, k.version),
                                    NoErr, GetPath(rr, k.name, k.version) \in artifacts))
    /\ UNCHANGED <<cacheIdle, cacheVars, pc, req, lk, lockFile>>

\* PluginCache.Load(name, version): plugin.Open fails on a file that is not there.
CacheLoad(w, k) ==
    /\ pc[w] \in {"idle", "locked", "rlocked"}
    /\ UNCHANGED compVars
    /\ Start
    /\ IF ~IsRLocked(ProcOf(w))
       THEN /\ hist' = Append(hist, CacheCall("Load", w, k, Absent, <<>>,
                                              TypedErr("Conflict"), FALSE))
            /\ resolver' = resolver
       ELSE \E rr \in Resolutions(resolver) :
               /\ resolver' = rr.after
               /\ hist' = Append(hist,
                     IF rr.err # NoErr
                     THEN CacheCall("Load", w, k, rr.hash, <<>>, rr.err, FALSE)
                     ELSE CacheCall("Load", w, k, rr.hash, GetPath(rr, k.name, k.version),
                                    IF GetPath(rr, k.name, k.version) \in artifacts
                                    THEN NoErr ELSE PlainErr("plugin.Open"),
                                    FALSE))
    /\ UNCHANGED <<cacheIdle, cacheVars, pc, req, lk, lockFile>>

\* A caller that holds the exclusive lock compiles into GetPath(name, version),
\* as PushModel does.
CacheCompile(w, k) ==
    /\ pc[w] = "locked"
    /\ UNCHANGED compVars
    /\ Start
    /\ \E rr \in Resolutions(resolver) :
          /\ resolver' = rr.after
          /\ IF rr.err # NoErr
             THEN /\ artifacts' = artifacts
                  /\ hist' = Append(hist, CacheCall("Compile", w, k, rr.hash, <<>>, rr.err, FALSE))
             ELSE /\ artifacts' = artifacts \cup {GetPath(rr, k.name, k.version)}
                  /\ hist' = Append(hist, CacheCall("Compile", w, k, rr.hash,
                                                    GetPath(rr, k.name, k.version), NoErr, FALSE))
    /\ UNCHANGED <<cacheIdle, cacheLock, flock, mode, pc, req, lk, lockFile>>

\* The operator points the resolver at another version of the target and
\* runs `init`: the pair under the resolver path is replaced.
CacheReconfigure(up) ==
    /\ Start
    /\ UNCHANGED compVars
    /\ Persisted(up) # resolver
    /\ resolver' = Persisted(up)
    /\ hist' = Append(hist, Change("Reconfigure", resolver))
    /\ UNCHANGED <<cacheIdle, cacheVars, pc, req, lk, lockFile>>

CacheNext ==
    \/ \E w \in Workers, r \in {LockReq, RLockReq} : CacheGetLock(w, r)
    \/ \E w \in Workers : CacheNewLock(w)
    \/ \E w \in Workers : CacheWait(w)
    \/ \E w \in Workers : CacheCancel(w)
    \/ \E w \in Workers : CacheTryLock(w)
    \/ \E w \in Workers : CacheUnlock(w)
    \/ \E w \in Workers, k \in CacheKeys : CacheCached(w, k)
    \/ \E w \in Workers, k \in CacheKeys : CacheLoad(w, k)
    \/ \E w \in Workers, k \in CacheKeys : CacheCompile(w, k)
    \/ \E up \in Upstreams : CacheReconfigure(up)
    \/ \E f \in FlockIds : Finalize(f)

CacheSpec == CacheInit /\ [][CacheNext]_vars

-----------------------------------------------------------------------------
(* CompSpec: one caller at a time compiles descriptors of one key into one  *)
(* output path and loads what is at that path                               *)

\* What is at the output path before the first call: nothing, or a shared
\* object that is not a plugin of this program.
InitialBuilds ==
    { [FreshBuild(skip) EXCEPT !.outdir = (kind # Absent), !.out = kind] :
         skip \in BOOLEAN, kind \in {Absent, "nosymbol", "wrongtype"} }

CompInit ==
    /\ build \in InitialBuilds
    /\ registry = EmptyRegistry
    /\ registry0 = EmptyRegistry
    /\ hist = <<>>
    /\ ServerIdle
    /\ artifacts = {}
    /\ resolver = ResolvedOnce

\* A call in the history of CompSpec.
CompileCall(d, pre, r, fault) ==
    [op |-> "Compile", desc |-> d, pre |-> pre, after |-> r.after, err |-> r.err,
     steps |-> r.steps, bad |-> r.bad, ran |-> r.ran, copied |-> r.copied, fault |-> fault]

\* PluginCompiler.fetchMod that writes the plugin's go.mod over the resolver's.
PersistedAfterFetchModInPlace(rr, d) ==
    IF rr.err = NoErr THEN [rr.after EXCEPT !.gomod = d.id] ELSE rr.after

\* The files under the resolver path after PluginCompiler.fetchMod: as its call
\* of Resolve left them. AddModuleStmt changes the modfile.File that this call
\* of Resolve parsed, and the result is written to go.mod of the module
\* directory.
PersistedAfterFetchMod(rr, d) == rr.after

\* CompilePlugin(d, path) with the surroundings failing one step at most.
CompCompile(d, fault, lenient) ==
    /\ Len(hist) < MaxCompOps
    /\ \E rr \in Resolutions(resolver) :
          LET r == CompilePlugin(build, d, fault, lenient, rr)
          IN /\ resolver' = IF "gomod" \in Range(r.steps)
                             THEN PersistedAfterFetchMod(rr, d) ELSE resolver
             /\ build' = r.after
             /\ hist' = Append(hist, CompileCall(d, build, r, fault))
    /\ UNCHANGED <<registry, registry0, serverVars, lockFile, cancelled, rd, entryVars>>

\* Load of the file at the output path.
CompLoad ==
    /\ Len(hist) < MaxCompOps
    /\ hist' = Append(hist, [op |-> "Load", kind |-> build.out, err |-> Load(build.out)])
    /\ UNCHANGED <<registry, registry0, serverVars, envVars, compVars>>

CompNext ==
    \/ \E d \in BuildInputs, fault \in Faults, lenient \in BOOLEAN : CompCompile(d, fault, lenient)
    \/ CompLoad

CompSpec == CompInit /\ [][CompNext]_vars

-----------------------------------------------------------------------------
(* RaceSpec: several callers run Resolve at the same time on one resolver   *)
(* path with the same configuration; a step is one file operation           *)

\* The resolver path before the first Resolve: a target, no go.mod, no mod.md5.
Unresolved == [target |-> "t", gomod |-> Absent, md5 |-> Absent, upstream |-> Upstream1]

RaceInit ==
    /\ build = FreshBuild(FALSE)
    /\ registry = EmptyRegistry
    /\ registry0 = EmptyRegistry
    /\ hist = <<>>
    /\ ServerIdle
    /\ artifacts = {}
    /\ resolver = Unresolved

\* What a Resolve returned to caller w.
RaceCall(w, mod, hash, err) == [op |-> "Resolve", w |-> w, mod |-> mod, hash |-> hash, err |-> err]

raceIdle ==
    <<registry, registry0, artifacts, cacheLock, flock, mode, req, lk, res, did, files,
      lockFile, cancelled, build, entryVars>>

\* Resolve line 114: ioutil.ReadFile(modPath).
RaceReadMod(w) ==
    /\ pc[w] = "idle"
    /\ nreq < MaxRaceOps
    /\ nreq' = nreq + 1
    /\ rd' = [rd EXCEPT ![w] = [mod |-> resolver.gomod, hash |-> Absent]]
    /\ pc' = [pc EXCEPT ![w] = "readHash"]
    /\ UNCHANGED <<raceIdle, hist, resolver>>

\* Resolve lines 116-117 and 137-142: ioutil.ReadFile(hashPath); with both files
\* read, modfile.Parse and the return of what was read.
RaceReadHash(w) ==
    /\ pc[w] = "readHash"
    /\ IF ReadFails(rd[w].mod) \/ ReadFails(resolver.md5)
       THEN /\ pc' = [pc EXCEPT ![w] = "fetch"]
            /\ UNCHANGED <<hist, rd>>
       ELSE /\ pc' = [pc EXCEPT ![w] = "idle"]
            /\ rd' = [rd EXCEPT ![w] = NoRead]
            /\ hist' = Append(hist,
                  IF Parses(rd[w].mod)
                  THEN RaceCall(w, rd[w].mod, resolver.md5, NoErr)
                  ELSE RaceCall(w, Absent, Absent, PlainErr("parse")))
    /\ UNCHANGED <<raceIdle, nreq, resolver>>

\* Resolve lines 118-126: fetchMod and mod.Format.
RaceFetch(w, outcome) ==
    /\ pc[w] = "fetch"
    /\ LET f == fetchMod(resolver, outcome)
       IN IF f.err # NoErr
          THEN /\ pc' = [pc EXCEPT ![w] = "idle"]
               /\ rd' = [rd EXCEPT ![w] = NoRead]
               /\ hist' = Append(hist, RaceCall(w, Absent, Absent, f.err))
          ELSE /\ pc' = [pc EXCEPT ![w] = "openMod"]
               /\ rd' = [rd EXCEPT ![w] = [mod |-> f.mod, hash |-> f.hash]]
               /\ hist' = hist
    /\ UNCHANGED <<raceIdle, nreq, resolver>>

\* ioutil.WriteFile of lines 127 and 131, first half: OpenFile with O_TRUNC
\* leaves the file empty.
RaceOpen(w) ==
    /\ pc[w] \in {"openMod", "openHash"}
    /\ IF pc[w] = "openMod"
       THEN /\ resolver' = [resolver EXCEPT !.gomod = "empty"]
            /\ pc' = [pc EXCEPT ![w] = "writeMod"]
       ELSE /\ resolver' = [resolver EXCEPT !.md5 = "empty"]
            /\ pc' = [pc EXCEPT ![w] = "writeHash"]
    /\ UNCHANGED <<raceIdle, nreq, hist, rd>>

\* ioutil.WriteFile, second half: Write and Close; after mod.md5, line 135
\* returns what was fetched.
RaceWrite(w) ==
    /\ pc[w] \in {"writeMod", "writeHash"}
    /\ IF pc[w] = "writeMod"
       THEN /\ resolver' = [resolver EXCEPT !.gomod = rd[w].mod]
            /\ pc' = [pc EXCEPT ![w] = "openHash"]
            /\ UNCHANGED <<hist, rd>>
       ELSE /\ resolver' = [resolver EXCEPT !.md5 = rd[w].hash]
            /\ pc' = [pc EXCEPT ![w] = "idle"]
            /\ rd' = [rd EXCEPT ![w] = NoRead]
            /\ hist' = Append(hist, RaceCall(w, rd[w].mod, rd[w].hash, NoErr))
    /\ UNCHANGED <<raceIdle, nreq>>

RaceNext ==
    \/ \E w \in Workers : RaceReadMod(w)
    \/ \E w \in Workers : RaceReadHash(w)
    \/ \E w \in Workers, outcome \in FetchOutcomes : RaceFetch(w, outcome)
    \/ \E w \in Workers : RaceOpen(w)
    \/ \E w \in Workers : RaceWrite(w)

RaceSpec == RaceInit /\ [][RaceNext]_vars

-----------------------------------------------------------------------------
(* EntrySpec: goroutines of two processes call PluginCache.Entry; a step is *)
(* one critical section of c.mu                                             *)

EntryInit ==
    /\ build = FreshBuild(FALSE)
    /\ registry = EmptyRegistry
    /\ registry0 = EmptyRegistry
    /\ hist = <<>>
    /\ ServerIdle
    /\ artifacts = {}
    /\ resolver = Unresolved

\* What Entry returned to caller w; missed tells that its look under RLock
\* found no entry.
EntryCall(w, k, entry, missed) ==
    [op |-> "Entry", w |-> w, key |-> k, entry |-> entry, missed |-> missed]

entryIdle ==
    <<registry, registry0, artifacts, cacheLock, flock, mode, lk, res, did, files,
      resolver, lockFile, cancelled, build, rd>>

\* Entry up to the first `if ok`: the look at the map under c.mu.RLock.
EntryRLock(w, k) ==
    /\ pc[w] = "idle"
    /\ nreq < MaxEntryOps
    /\ nreq' = nreq + 1
    /\ req' = [req EXCEPT ![w] = [NoReq EXCEPT !.op = "Entry", !.key = k]]
    /\ LET entry == entries[ProcOf(w)][EntryPath(k.name, k.version)]
       IN IF entry # NoEntry
          THEN /\ hist' = Append(hist, EntryCall(w, k, entry, FALSE))
               /\ pc' = pc
          ELSE /\ pc' = [pc EXCEPT ![w] = "entryLock"]
               /\ hist' = hist
    /\ UNCHANGED <<entryIdle, entryVars>>

\* The rest of Entry, under c.mu.Lock.
EntryLock(w) ==
    /\ pc[w] = "entryLock"
    /\ LET p == ProcOf(w)
           r == EntryLocked(entries[p], heap, p, req[w].key.name, req[w].key.version)
       IN /\ entries' = [entries EXCEPT ![p] = r.entries]
          /\ heap' = r.heap
          /\ hist' = Append(hist, EntryCall(w, req[w].key, r.entry, TRUE))
    /\ pc' = [pc EXCEPT ![w] = "idle"]
    /\ UNCHANGED <<entryIdle, nreq, req>>

EntryNext ==
    \/ \E w \in Workers, k \in EntryKeys : EntryRLock(w, k)
    \/ \E w \in Workers : EntryLock(w)

EntrySpec == EntryInit /\ [][EntryNext]_vars

(***************************************************************************)
(* Claims about PluginCache.Entry, checked under EntrySpec.                *)
(***************************************************************************)

IsEntry(i) == hist[i].op = "Entry"

\* Calls i and j were made in one process, hence on one PluginCache.
SameCache(i, j) == ProcOf(hist[i].w) = ProcOf(hist[j].w)

\* C37: Entry returns one PluginEntry per key and cache to all callers, racing
\* first callers included; no two allocated entries of a cache have the same
\* map key, and an entry stored in the map is never replaced.
C37_OneEntryPerKey ==
    /\ [](\A i, j \in 1..Len(hist) :
             (IsEntry(i) /\ IsEntry(j) /\ SameCache(i, j) /\ hist[i].key = hist[j].key)
             => hist[i].entry = hist[j].entry)
    /\ [](\A e1, e2 \in heap :
             (e1.at[1] = e2.at[1] /\ e1.Path = e2.Path) => e1 = e2)
    /\ [][\A p \in Procs : \A path \in DOMAIN entries[p] :
             entries[p][path] # NoEntry => entries'[p][path] = entries[p][path]]_vars

\* C37 witness: two goroutines of one process both found no entry for the same
\* key under RLock, and both calls have returned.
C37_Witness ==
    \E i, j \in 1..Len(hist) :
       /\ IsEntry(i) /\ IsEntry(j) /\ SameCache(i, j)
       /\ hist[i].w # hist[j].w
       /\ hist[i].key = hist[j].key
       /\ hist[i].missed /\ hist[j].missed
       /\ hist[i].entry # NoEntry

(***************************************************************************)
(* Claims about PushModel and the cache lock, checked under Spec.          *)
(***************************************************************************)

PushPcs == {"newLock", "tryLock", "locked", "cached", "compile", "add", "unlock", "panic",
            "recover"}

\* w serves, or has served last, a PushModel request that carries a model.
IsPush(w) == req[w].op = "Push" /\ req[w].hasModel

\* w is between cache.Lock() returning and the deferred cache.Unlock().
Inside(w) == pc[w] \in {"locked", "cached", "compile", "add", "unlock", "panic"}

\* The workers whose one request is a push of key k.
Pushers(k) == { w \in Workers : req[w] = PushReq(k) }

\* Every request so far was a push of k, each by another worker, all of them
\* took the cache lock, and all of them have returned.
OnlyPushesOf(k) ==
    /\ Pushers(k) # {}
    /\ nreq = Cardinality(Pushers(k))
    /\ \A w \in Pushers(k) : pc[w] = "idle" /\ "lock" \in did[w]

\* C1: when pushes of one (name, version) run concurrently against a registry
\* without a descriptor for it, exactly one returns success and every other one
\* AlreadyExists, and afterwards the artifact and the descriptor of the key exist.
C1_ExactlyOnePushSucceeds ==
    \A k \in ReqKeys :
       (OnlyPushesOf(k) /\ ~FileExists(registry0, getDescriptorFile(k.name, k.version)))
       => /\ Cardinality({ w \in Pushers(k) : res[w] = "OK" }) = 1
          /\ \A w \in Pushers(k) : res[w] \in {"OK", "AlreadyExists"}
          /\ \A rr \in Resolutions(resolver) : GetPath(rr, k.name, k.version) \in artifacts
          /\ FileExists(registry, getDescriptorFile(k.name, k.version))

\* C2: no two PushModel requests are at the same time between cache.Lock()
\* returning and the deferred cache.Unlock(), in one process or in two.
C2_MutualExclusion ==
    \A w \in Workers : \A v \in Workers \ {w} : ~(Inside(w) /\ Inside(v))

\* C3: a PushModel whose lookup at step 2 met no descriptor does not fail there:
\* it is at the cache check next, or has passed it.
C3_NotFoundIsExpectedPath ==
    \A w \in Workers :
       (IsPush(w) /\ "absent" \in did[w]) => (pc[w] = "cached" \/ "cached" \in did[w])

\* C4: a PushModel whose lookup at step 2 found the descriptor fails with
\* AlreadyExists there, runs neither the cache check, the compiler nor the
\* registry add, and changes neither the registry nor the cached artifacts.
C4_Step(w) ==
    /\ (pc[w] = "locked" /\ pc'[w] # "locked" /\ req[w].hasModel
          /\ GetModel(registry, req[w].key.name, req[w].key.version).err = NoErr)
       => /\ pc'[w] = "unlock"
          /\ res'[w] = "AlreadyExists"
          /\ "present" \in did'[w]
          /\ registry' = registry /\ artifacts' = artifacts
    /\ (pc[w] = "unlock" /\ "present" \in did[w] /\ pc'[w] # "unlock")
       => /\ pc'[w] = "idle"
          /\ res'[w] = "AlreadyExists"
          /\ did'[w] \cap {"cached", "compile", "add"} = {}
          /\ registry' = registry /\ artifacts' = artifacts

C4_RegisteredIsAlreadyExists == [][\A w \in Workers : C4_Step(w)]_vars

\* C4 witness: a push that found its descriptor registered has returned AlreadyExists.
C4_Witness ==
    \E w \in Workers :
       /\ IsPush(w) /\ pc[w] = "idle" /\ "present" \in did[w]
       /\ res[w] = "AlreadyExists"
       /\ FileExists(registry, getDescriptorFile(req[w].key.name, req[w].key.version))

\* C5: a PushModel that acquired the cache lock has released the lock it
\* acquired when it returns, and a PushModel that did not acquire the lock ran
\* none of steps 2 to 5.
C5_Step(w) ==
    /\ (pc[w] \in {"unlock", "recover"} /\ pc'[w] = "idle" /\ "lock" \in did[w])
       => (~flock'[lk[w]].l /\ mode'[lk[w]] = "un")
    /\ (pc[w] \in PushPcs /\ pc'[w] = "idle" /\ "lock" \notin did[w])
       => did'[w] = {}

C5_LockReleasedOnReturn == [][\A w \in Workers : C5_Step(w)]_vars

(***************************************************************************)
(* Claims about the registry, checked under RegSpec.                       *)
(***************************************************************************)

\* The registry after call i of the history.
Post(i) == IF i = Len(hist) THEN registry ELSE hist[i + 1].pre

\* The descriptor file of call i's key.
FileOf(i) == getDescriptorFile(hist[i].key.name, hist[i].key.version)

ValidUTF8(s) == \A i \in DOMAIN s : s[i] # BAD

\* Name, version, module references and plugin record are valid UTF-8.
ValidText(m) ==
    /\ ValidUTF8(m.name) /\ ValidUTF8(m.version)
    /\ ValidUTF8(m.plugin.name) /\ ValidUTF8(m.plugin.version)
    /\ \A i \in DOMAIN m.modules :
          /\ ValidUTF8(m.modules[i].name) /\ ValidUTF8(m.modules[i].organization)
          /\ ValidUTF8(m.modules[i].revision) /\ ValidUTF8(m.modules[i].file)

\* "{name}-{version}.json" is the name of a file of the registry directory.
IsFileName(m) == \A i \in DOMAIN getDescriptorFile(m.name, m.version) :
                    getDescriptorFile(m.name, m.version)[i] # "/"

NonEmptyKey(m) == m.name # Empty /\ m.version # Empty

\* Equality on name, version, module list and plugin record.
SameIdentity(a, b) ==
    a.name = b.name /\ a.version = b.version /\ a.modules = b.modules /\ a.plugin = b.plugin

\* Call i is AddModel(D) and call i + 1 is GetModel(D.Name, D.Version).
AddThenGet(i) ==
    /\ i + 1 \in DOMAIN hist
    /\ hist[i].op = "Add" /\ hist[i + 1].op = "Get" /\ hist[i + 1].key = hist[i].key

RoundTrips(i) ==
    /\ hist[i].err = NoErr
    /\ hist[i + 1].err = NoErr
    /\ SameIdentity(hist[i + 1].out[1], hist[i].model)

\* C6: GetModel of a key without a descriptor file returns an error of kind
\* NotFound, for a key never added and for a key added and then removed.
C6_GetMissingIsNotFound ==
    \A i \in DOMAIN hist :
       (hist[i].op = "Get" /\ ~FileExists(hist[i].pre, FileOf(i))) => IsNotFound(hist[i].err)

\* C7 as stated: for every descriptor D with non-empty Name and Version,
\* AddModel(D) then GetModel(D.Name, D.Version) succeeds and returns a descriptor
\* equal to D on name, version, module list and plugin record.
C7_AddGetRoundTrip_AsStated ==
    \A i \in DOMAIN hist :
       (AddThenGet(i) /\ NonEmptyKey(hist[i].model)) => RoundTrips(i)

\* C7 amended: the same, for descriptors whose name, version, module references
\* and plugin record are valid UTF-8 and whose "{name}-{version}.json" is a file
\* name (holds no path separator).
C7_AddGetRoundTrip ==
    \A i \in DOMAIN hist :
       (AddThenGet(i) /\ NonEmptyKey(hist[i].model) /\ ValidText(hist[i].model)
          /\ IsFileName(hist[i].model))
       => RoundTrips(i)

\* C7 witness: a descriptor with a module reference and its own plugin record
\* was added and read back.
C7_Witness ==
    \E i \in DOMAIN hist :
       /\ AddThenGet(i) /\ hist[i].model = WithModule(Key(NameA, Ver1))
       /\ RoundTrips(i)

\* The keys added by one of the first n calls and not removed by a later one of them.
LiveKeys(n) ==
    { k \in Keys :
        \E j \in 1..n :
           /\ hist[j].op = "Add" /\ hist[j].key = k /\ hist[j].err = NoErr
           /\ \A m \in (j + 1)..n : ~(hist[m].op = "Remove" /\ hist[m].key = k) }

\* The descriptor files written by one of the first n calls and not removed by a
\* later one of them.
LiveFiles(n) ==
    { f \in DescFiles :
        \E j \in 1..n :
           /\ hist[j].op = "Add" /\ FileOf(j) = f /\ hist[j].err = NoErr
           /\ \A m \in (j + 1)..n : ~(hist[m].op = "Remove" /\ FileOf(m) = f) }

\* Every descriptor added by the first n calls has a non-empty, valid UTF-8 name
\* and version without a path separator, so that its file lies in the directory.
AddsNamed(n) ==
    \A j \in 1..n :
       hist[j].op = "Add"
       => /\ NonEmptyKey(hist[j].model)
          /\ ValidUTF8(hist[j].model.name) /\ ValidUTF8(hist[j].model.version)
          /\ IsFileName(hist[j].model)

\* The positions of the listing of call i that hold an entry of key k.
EntriesOf(i, k) == { n \in DOMAIN hist[i].out : KeyOf(hist[i].out[n]) = k }

\* The positions of the listing of call i whose entry belongs in file f.
EntriesIn(i, f) ==
    { n \in DOMAIN hist[i].out :
        getDescriptorFile(hist[i].out[n].name, hist[i].out[n].version) = f }

\* C8 as stated: after any AddModel and RemoveModel calls on a registry that
\* started empty, ListModels succeeds and returns exactly one entry for each key
\* added and not removed afterwards.
C8_ListIsLiveKeys_AsStated ==
    \A i \in DOMAIN hist :
       hist[i].op = "List"
       => /\ hist[i].err = NoErr
          /\ Len(hist[i].out) = Cardinality(LiveKeys(i - 1))
          /\ \A k \in LiveKeys(i - 1) : Cardinality(EntriesOf(i, k)) = 1

\* C8 amended: when every added descriptor has a non-empty, valid UTF-8 name and
\* version without a path separator, ListModels succeeds and returns exactly one entry for each descriptor
\* file "{name}-{version}.json" written and not removed afterwards.
C8_ListIsLiveFiles ==
    \A i \in DOMAIN hist :
       (hist[i].op = "List" /\ AddsNamed(i - 1))
       => /\ hist[i].err = NoErr
          /\ Len(hist[i].out) = Cardinality(LiveFiles(i - 1))
          /\ \A f \in LiveFiles(i - 1) : Cardinality(EntriesIn(i, f)) = 1

\* C8 witness: two descriptors were added and the listing holds both.
C8_Witness ==
    \E i \in DOMAIN hist :
       /\ hist[i].op = "List" /\ AddsNamed(i - 1)
       /\ Cardinality(LiveFiles(i - 1)) = 2
       /\ Len(hist[i].out) = 2

AllValidText(m) == ValidText(m) /\ \A i \in DOMAIN m.files : ValidUTF8(m.files[i].path)

\* Call i is AddModel(D2) on a key that has a descriptor file.
AddOver(i) == hist[i].op = "Add" /\ FileExists(hist[i].pre, FileOf(i))

\* Call i + 1 is GetModel of the key of call i.
GetFollows(i) ==
    i + 1 \in DOMAIN hist /\ hist[i + 1].op = "Get" /\ hist[i + 1].key = hist[i].key

\* Calls i and i + 1 are AddModel of one and the same descriptor.
AddTwice(i) ==
    /\ i + 1 \in DOMAIN hist
    /\ hist[i].op = "Add" /\ hist[i + 1].op = "Add" /\ hist[i + 1].model = hist[i].model

\* C10 as stated: AddModel(D2) on a key that has a descriptor returns no error
\* and GetModel then returns D2; AddModel twice with identical contents leaves
\* the bytes of one AddModel.
C10_AddOverwrites_AsStated ==
    \A i \in DOMAIN hist :
       /\ AddOver(i)
          => /\ hist[i].err = NoErr
             /\ GetFollows(i)
                => (hist[i + 1].err = NoErr /\ hist[i + 1].out[1] = hist[i].model)
       /\ AddTwice(i) => (hist[i + 1].err = hist[i].err /\ Post(i + 1) = Post(i))

\* C10 amended: GetModel returns D2 when D2 has a non-empty name and version
\* and all its strings are valid UTF-8; the rest as stated.
C10_AddOverwrites ==
    \A i \in DOMAIN hist :
       /\ AddOver(i)
          => /\ hist[i].err = NoErr
             /\ Post(i)[FileOf(i)] = MarshalIndent(hist[i].model)
             /\ (GetFollows(i) /\ NonEmptyKey(hist[i].model) /\ AllValidText(hist[i].model))
                => (hist[i + 1].err = NoErr /\ hist[i + 1].out[1] = hist[i].model)
       /\ AddTwice(i) => (hist[i + 1].err = hist[i].err /\ Post(i + 1) = Post(i))

\* C10 witness: a descriptor was replaced by another of its key, which was read back.
C10_Witness ==
    \E i \in DOMAIN hist :
       /\ AddOver(i) /\ GetFollows(i)
       /\ hist[i].model = WithModule(Key(NameA, Ver1))
       /\ hist[i].pre[FileOf(i)] = MarshalIndent(Plain(Key(NameA, Ver1)))
       /\ hist[i + 1].out[1] = hist[i].model

\* The descriptor files the registry directory holds.
StoredFiles(reg) == { f \in DescFiles : FileExists(reg, f) }

\* The descriptor a stored file decodes to.
Stored(reg, f) == Unmarshal(reg[f])

\* Every module reference of the descriptor names the path of one of its files.
ModuleFilesPresent(m) ==
    \A i \in DOMAIN m.modules : \E j \in DOMAIN m.files : m.files[j].path = m.modules[i].file

\* C11: every stored descriptor has a non-empty name and version and module
\* file references that name paths of its files, and no two stored descriptors
\* share (name, version).
C11_StoredDescriptorsValid ==
    /\ \A f \in StoredFiles(registry) :
          /\ NonEmptyKey(Stored(registry, f))
          /\ ModuleFilesPresent(Stored(registry, f))
    /\ \A f \in StoredFiles(registry) : \A g \in StoredFiles(registry) \ {f} :
          KeyOf(Stored(registry, f)) # KeyOf(Stored(registry, g))

\* A stored descriptor file has an empty name or an empty version.
EmptyKeyFile(reg, f) == FileExists(reg, f) /\ ~NonEmptyKey(Stored(reg, f))

\* The errors loadModel gives for the files ListModels walks.
WalkErrors(reg) ==
    { loadModel(reg, Walk(reg)[n]).err : n \in DOMAIN Walk(reg) } \ {NoErr}

\* C12: GetModel of a descriptor file with an empty name or version fails with
\* Invalid; ListModels fails with Invalid when it walks such a file, and fails
\* with the error of a file, returning no descriptor, when a file fails to load.
C12_EmptyKeyIsInvalid ==
    \A i \in DOMAIN hist :
       /\ (hist[i].op = "Get" /\ EmptyKeyFile(hist[i].pre, FileOf(i)))
          => hist[i].err = TypedErr("Invalid")
       /\ (hist[i].op = "List" /\ \E f \in DescFiles : EmptyKeyFile(hist[i].pre, f))
          => hist[i].err = TypedErr("Invalid")
       /\ (hist[i].op = "List" /\ WalkErrors(hist[i].pre) # {})
          => (hist[i].err \in WalkErrors(hist[i].pre) /\ hist[i].out = <<>>)

\* C12 witness: a descriptor with an empty name was stored next to a valid one,
\* and both GetModel of its key and ListModels failed with Invalid.
C12_Witness ==
    \E i \in DOMAIN hist : \E j \in DOMAIN hist :
       /\ hist[i].op = "Get" /\ EmptyKeyFile(hist[i].pre, FileOf(i))
       /\ hist[i].err = TypedErr("Invalid")
       /\ hist[j].op = "List" /\ hist[j].err = TypedErr("Invalid")

\* Call i is an AddModel or a RemoveModel.
IsUpdate(i) == hist[i].op \in {"Add", "Remove"}

\* Distinct keys of the set have distinct descriptor files, artifact files and
\* module directories.
DistinctPlaces(keys) ==
    \A k1, k2 \in keys :
       k1 # k2
       => /\ getDescriptorFile(k1.name, k1.version) # getDescriptorFile(k2.name, k2.version)
          /\ ArtifactFile(k1.name, k1.version) # ArtifactFile(k2.name, k2.version)
          /\ getSafeQualifiedName(k1.name, k1.version)
                # getSafeQualifiedName(k2.name, k2.version)

\* Name and version hold none of "-", ".", "_" and "/".
SimpleKey(k) ==
    \A s \in {k.name, k.version} : \A i \in DOMAIN s : s[i] \notin {"-", ".", "_", "/"}

IsResolve(i) == hist[i].op = "Resolve"

\* go.mod and mod.md5 are both readable and go.mod parses.
PairPresent(r) == ~ReadFails(r.gomod) /\ ~ReadFails(r.md5) /\ Parses(r.gomod)

\* The resolver after call i of the history.
ResPost(i) == IF i = Len(hist) THEN resolver ELSE hist[i + 1].pre

\* C17: with go.mod and mod.md5 present and go.mod parsing, Resolve runs no
\* subprocess, writes no file and returns the bytes of mod.md5; and a Resolve
\* that follows a successful Resolve returns the hash of the first.
C17_PersistedPairIsReturned ==
    \A i \in DOMAIN hist :
       /\ (IsResolve(i) /\ PairPresent(hist[i].pre))
          => /\ hist[i].err = NoErr
             /\ ~hist[i].ran /\ ~hist[i].fetched /\ hist[i].wrote = {}
             /\ hist[i].hash = hist[i].pre.md5
             /\ ResPost(i) = hist[i].pre
       /\ (IsResolve(i) /\ hist[i].err = NoErr /\ i + 1 \in DOMAIN hist /\ IsResolve(i + 1))
          => (hist[i + 1].err = NoErr /\ hist[i + 1].hash = hist[i].hash)

\* C17 witness: a Resolve fetched and persisted the pair, the next Resolve
\* returned that hash without a subprocess, although the target had a new version.
C17_Witness ==
    \E i \in DOMAIN hist :
       /\ i + 2 \in DOMAIN hist
       /\ IsResolve(i) /\ hist[i].fetched /\ hist[i].err = NoErr
       /\ hist[i + 1].op = "Publish"
       /\ IsResolve(i + 2) /\ ~hist[i + 2].ran /\ hist[i + 2].hash = hist[i].hash

\* C18: Resolve returns the persisted pair only when both files are readable
\* and go.mod parses, and takes the fetch path in every other case.
C18_FetchUnlessPairPresent ==
    \A i \in DOMAIN hist :
       IsResolve(i)
       => /\ (~hist[i].fetched /\ hist[i].err = NoErr) => PairPresent(hist[i].pre)
          /\ ~PairPresent(hist[i].pre) => hist[i].fetched

\* C19: a Resolve that returns an error leaves go.mod and mod.md5 as they were.
C19_NoPartialResult ==
    \A i \in DOMAIN hist :
       (IsResolve(i) /\ hist[i].err # NoErr)
       => (ResPost(i).gomod = hist[i].pre.gomod /\ ResPost(i).md5 = hist[i].pre.md5)

\* C20 as stated: Resolve with an empty target returns Invalid, whatever the
\* files under the resolver path.
C20_EmptyTargetIsInvalid_AsStated ==
    \A i \in DOMAIN hist :
       (IsResolve(i) /\ hist[i].pre.target = "") => hist[i].err = TypedErr("Invalid")

\* C20 amended: Resolve with an empty target returns Invalid when go.mod or
\* mod.md5 is missing or unreadable, and then starts no subprocess and writes
\* no file; with both files readable the target is not looked at.
C20_EmptyTargetIsInvalid ==
    \A i \in DOMAIN hist :
       /\ (IsResolve(i) /\ hist[i].pre.target = ""
             /\ (ReadFails(hist[i].pre.gomod) \/ ReadFails(hist[i].pre.md5)))
          => /\ hist[i].err = TypedErr("Invalid")
             /\ ~hist[i].ran /\ hist[i].wrote = {}
             /\ ResPost(i) = hist[i].pre
       /\ (IsResolve(i) /\ hist[i].pre.target = "" /\ PairPresent(hist[i].pre))
          => (hist[i].err = NoErr /\ hist[i].hash = hist[i].pre.md5)
       /\ (IsResolve(i) /\ hist[i].pre.target = ""
             /\ ~ReadFails(hist[i].pre.gomod) /\ ~ReadFails(hist[i].pre.md5)
             /\ ~Parses(hist[i].pre.gomod))
          => hist[i].err = PlainErr("parse")

\* C20 witness: a resolver without a target returned Invalid after mod.md5 was removed.
C20_Witness ==
    \E i \in DOMAIN hist :
       /\ i + 1 \in DOMAIN hist
       /\ hist[i].op = "Remove" /\ PairPresent(hist[i].pre)
       /\ IsResolve(i + 1) /\ hist[i + 1].pre.target = ""
       /\ hist[i + 1].err = TypedErr("Invalid")

(***************************************************************************)
(* Claims about the artifacts of the cache, checked under Spec.            *)
(***************************************************************************)

\* The artifact of the key of w's request, in the partition of the persisted hash.
ArtifactOf(w) ==
    { GetPath(rr, req[w].key.name, req[w].key.version) : rr \in Resolutions(resolver) }

\* w's push leaves step 2 with the artifact of its key in the partition and no
\* descriptor of the key in the registry.
LeavesPreCheck(w) ==
    /\ pc[w] = "locked" /\ pc'[w] # "locked"
    /\ req[w].hasModel
    /\ ArtifactOf(w) \subseteq artifacts
    /\ ~FileExists(registry, getDescriptorFile(req[w].key.name, req[w].key.version))

\* C16: no request removes or rewrites an artifact, and a push of a key whose
\* artifact exists and whose descriptor does not goes on to the cache check,
\* finds the artifact and skips the compiler.
C16_ArtifactIsReused ==
    [][ /\ artifacts \subseteq artifacts'
        /\ \A w \in Workers :
              /\ (pc[w] = "compile" /\ pc'[w] # "compile") => ~(ArtifactOf(w) \subseteq artifacts)
              /\ LeavesPreCheck(w) => pc'[w] = "cached"
              /\ (pc[w] = "cached" /\ ArtifactOf(w) \subseteq artifacts)
                    => pc'[w] \in {"cached", "add"} ]_vars

C34_SuccessMeansRegistered ==
    [][\A w \in Workers :
          (/\ req[w].op = "Push" /\ pc[w] # "idle" /\ pc'[w] = "idle"
           /\ res'[w] = Status(NoErr))
          => /\ "add" \in did'[w]
             /\ FileExists(registry', getDescriptorFile(req[w].key.name, req[w].key.version))]_vars

\* w's push leaves step 2 with no descriptor of its key in the registry.
PreCheckFindsNothing(w) ==
    /\ pc[w] = "locked" /\ pc'[w] # "locked"
    /\ req[w].hasModel
    /\ ~FileExists(registry, getDescriptorFile(req[w].key.name, req[w].key.version))

IsLookup(i) == hist[i].op \in {"Cached", "Load"}

\* C13: Cached and Load return Conflict to a caller in whose process no lock
\* of the cache is held, never return Conflict to a caller that holds the
\* shared or the exclusive lock, and Cached then answers true exactly when
\* the file at GetPath(name, version) exists.
C13_ConflictIffNotLocked ==
    \A i \in DOMAIN hist :
       IsLookup(i)
       => /\ ~hist[i].procHeld => hist[i].err = TypedErr("Conflict")
          /\ hist[i].held # "none" => hist[i].err # TypedErr("Conflict")
          /\ (hist[i].op = "Cached" /\ hist[i].held # "none" /\ hist[i].err = NoErr)
                => (hist[i].cached <=> hist[i].exists)

\* The Flock objects that getLock has created in process p.
CreatedIn(p) == { f \in FlockIds : ProcOf(f) = p /\ lockFile[f] # <<>> }

\* C36: getLock creates at most one Flock per PluginCache, and an Unlock or
\* RUnlock acts on the Flock its caller locked and leaves that lock released.
C36_OneLockPerCache ==
    /\ [](\A p \in Procs : Cardinality(CreatedIn(p)) <= 1)
    /\ [][\A w \in Workers :
             (pc[w] \in {"locked", "rlocked"} /\ pc'[w] = "idle")
             => (UnlockTarget(ProcOf(w)) = lk[w] /\ mode'[lk[w]] = "un")]_vars

\* The partition a caller's lock is on.
LockedPartition(w) == PartitionOf(lockFile[lk[w]])

\* C14: between callers of different processes, an exclusive lock on a
\* partition excludes every other lock on it, and no artifact is written into
\* a partition while a caller of another process holds the shared lock on it.
C14_SharedExcludesExclusive ==
    /\ [](\A w \in Workers, v \in Workers :
            (ProcOf(w) # ProcOf(v) /\ Holds(w) = "ex" /\ Holds(v) # "none")
            => LockedPartition(w) # LockedPartition(v))
    /\ [][\A path \in artifacts' \ artifacts :
            \A v \in Workers :
               (Holds(v) = "sh" /\ ProcOf(v) # ProcOf(hist'[Len(hist')].w))
               => LockedPartition(v) # PartitionOf(path)]_vars

\* C15: the path Cached, Load and GetPath work on lies in the partition
\* directory of the hash Resolve returned to that call, so that nothing stored
\* under another hash is reported as cached or loaded.
C15_PartitionOfCurrentHash ==
    \A i \in DOMAIN hist :
       (hist[i].op \in {"Cached", "Load", "Compile"} /\ hist[i].path # <<>>)
       => PartitionOf(hist[i].path) = <<CachePath, B64(hist[i].hash)>>

(***************************************************************************)
(* Claims about concurrent callers, under CacheSpec, CompSpec and Spec.    *)
(***************************************************************************)

\* w is idle and has served no request yet.
\* C21: after a caller that holds the exclusive lock has compiled the artifact
\* of a key into GetPath(name, version), its Cached of that key is true and its
\* Load of that key returns the plugin with no error, as long as it has not
\* unlocked and the resolver path was not reconfigured.
C21_CompiledIsCachedAndLoads ==
    \A i, j \in DOMAIN hist :
       (/\ i < j
        /\ hist[i].op = "Compile" /\ hist[i].err = NoErr /\ hist[i].held = "ex"
        /\ hist[j].op \in {"Cached", "Load"}
        /\ hist[j].w = hist[i].w /\ hist[j].key = hist[i].key /\ hist[j].held = "ex"
        /\ \A m \in (i + 1) .. (j - 1) :
              /\ hist[m].op # "Reconfigure"
              /\ hist[m].op = "Unlock" => hist[m].w # hist[i].w)
       => /\ hist[j].err = NoErr
          /\ hist[j].op = "Cached" => hist[j].cached

\* C22: every failure of Load(path) is an error of kind Invalid, whether the
\* shared object cannot be opened, exports no plugin symbol or exports a symbol
\* of the wrong type.
C22_LoadFailuresAreInvalid ==
    \A i \in DOMAIN hist :
       (hist[i].op = "Load" /\ hist[i].err # NoErr) => hist[i].err = TypedErr("Invalid")

\* C23: a caller blocked in Lock or RLock whose request is cancelled stops
\* retrying and returns an error: it never goes on to acquire the lock.
C23_CancelledCallerGivesUp ==
    [][\A w \in Workers :
          (w \in cancelled /\ pc[w] = "blocked") => pc'[w] \notin {"locked", "rlocked"}]_vars

Fresh(w) == pc[w] = "idle" /\ res[w] = "none"

\* C24: a GetModel served while a PushModel of the same key is in progress
\* returns the descriptor (OK) or the pre-publish state (NotFound).
C24_GetDuringPush ==
    [][\A w \in Workers :
          (/\ Fresh(w) /\ res'[w] # "none" /\ req'[w].op = "Get"
           /\ \E v \in Workers \ {w} :
                 pc[v] \in PushPcs /\ req[v] = PushReq(req'[w].key))
          => res'[w] \in {"OK", "NotFound"}]_vars

\* C25: a ListModels returns successfully, whatever DeleteModel requests run
\* while it is served (every descriptor in the directory is a valid one here).
C25_ListSurvivesRemoval ==
    \A w \in Workers : (req[w].op = "List" /\ pc[w] = "idle") => res[w] = "OK"

(***************************************************************************)
(* Claims about concurrent callers of Resolve, checked under RaceSpec.     *)
(***************************************************************************)

\* C31: every Resolve of the race that succeeds returns the hash of the target,
\* none an empty or truncated one, and once all callers have returned go.mod
\* and mod.md5 are both missing or hold the manifest and the hash of the target.
C31_RacingResolversAgree ==
    /\ \A i \in DOMAIN hist :
          (hist[i].op = "Resolve" /\ hist[i].err = NoErr)
          => hist[i].hash = resolver.upstream.hash
    /\ (\A w \in Workers : pc[w] = "idle")
          => \/ resolver.gomod = Absent /\ resolver.md5 = Absent
             \/ resolver.gomod = resolver.upstream.mod /\ resolver.md5 = resolver.upstream.hash

(***************************************************************************)
(* Claims about the compiler, checked under CompSpec.                      *)
(***************************************************************************)

IsCompile(i) == hist[i].op = "Compile"

\* What Resolve can return on resolver r: manifest, hash and error.
ResolveResults(r) == { <<rr.mod, rr.hash, rr.err>> : rr \in Resolutions(r) }

\* C32: with go.mod and mod.md5 under the resolver path, no step changes them,
\* and Resolve returns the same manifest and the same hash after it as before.
C32_PersistedPairUntouched ==
    [][(~ReadFails(resolver.gomod) /\ ~ReadFails(resolver.md5))
          => /\ resolver'.gomod = resolver.gomod
             /\ resolver'.md5 = resolver.md5
             /\ ResolveResults(resolver') = ResolveResults(resolver)]_vars

\* C32's case: two CompilePlugin calls have written the go.mod of the module
\* directory from the persisted manifest.
C32_Witness ==
    /\ Len(hist) = 2
    /\ \A i \in DOMAIN hist :
          /\ IsCompile(i)
          /\ "main" \in Range(hist[i].steps)
          /\ hist[i].pre.gomod # hist[i].desc.id
    /\ ~ReadFails(resolver.gomod) /\ ~ReadFails(resolver.md5)

\* The steps that make a directory, write go.mod, render a template or copy the
\* YANG files.
PreparationSteps ==
    {"mkroot", "mkdir", "gomod", "main", "mkmodel", "model", "plugin", "mkyang", "copy", "mkout"}

\* C27: a CompilePlugin in which a directory creation, the go.mod write, a
\* template rendering or the YANG copy fails returns an error with that step
\* as its last one, starts neither the generator nor the toolchain after it and
\* leaves the file at the output path as it was.
C27_StopsAtFirstFailure ==
    \A i \in DOMAIN hist :
       (IsCompile(i) /\ hist[i].bad \cap PreparationSteps # {})
       => /\ hist[i].err # NoErr
          /\ hist[i].steps[Len(hist[i].steps)] \in hist[i].bad
          /\ Cardinality(hist[i].bad) = 1
          /\ hist[i].ran \cap {"tidy", "build"} = {}
          /\ (\E s \in hist[i].bad : s # "mkout") => "generator" \notin hist[i].ran
          /\ hist[i].after.out = hist[i].pre.out

\* The generated files of the module directory of tree b.
GeneratedFiles(b) == <<b.gomod, b.main, b.model, b.plugin>>

\* C28: when CompilePlugin returns success the module directory is gone if
\* SkipCleanUp is not set and is there with its generated files if it is set,
\* and the artifact is at the output path in both cases.
C28_CleanupUnlessSkipped ==
    \A i \in DOMAIN hist :
       (IsCompile(i) /\ hist[i].err = NoErr)
       => LET b == hist[i].after
              id == hist[i].desc.id
          IN /\ b.out = "plugin"
             /\ b.skip = hist[i].pre.skip
             /\ ~b.skip => ~b.dir /\ ~b.modeldir /\ ~b.yangdir
             /\ b.skip => /\ b.dir /\ b.modeldir /\ b.yangdir
                          /\ GeneratedFiles(b) = <<id, id, id, id>>
                          /\ b.generated = b.yang

\* C28's case: a successful compile over a module directory that an earlier
\* attempt left behind, without SkipCleanUp or with it.
C28_Witness ==
    \E i \in DOMAIN hist :
       /\ IsCompile(i) /\ hist[i].err = NoErr
       /\ \/ ~hist[i].pre.skip /\ hist[i].pre.dir /\ ~hist[i].after.dir
          \/ hist[i].pre.skip /\ hist[i].pre.dir /\ hist[i].after.dir

\* A compile that got past the YANG copy step over a module directory left
\* behind by an earlier attempt.
OverLeftovers(i) == IsCompile(i) /\ hist[i].pre.dir /\ hist[i].copied # <<>>

\* C29 as stated: after the copy step of such a compile the yang file holds the
\* data of the current descriptor's Files entry and the generated files hold
\* the new contents.
C29_OverwritesLeftovers_AsStated ==
    \A i \in DOMAIN hist :
       (OverLeftovers(i) /\ hist[i].desc.yang # Absent)
       => /\ hist[i].copied[1].yang = hist[i].desc.yang
          /\ GeneratedFiles(hist[i].copied[1]) =
                <<hist[i].desc.id, hist[i].desc.id, hist[i].desc.id, hist[i].desc.id>>

\* C29 amended: the generated files hold the new contents; a yang file the
\* earlier attempt left keeps its data, and only a missing one is written with
\* the data of the current descriptor's Files entry.
C29_OverwritesLeftovers ==
    \A i \in DOMAIN hist :
       OverLeftovers(i)
       => /\ hist[i].copied[1].yang =
                IF hist[i].pre.yang # Absent THEN hist[i].pre.yang ELSE hist[i].desc.yang
          /\ GeneratedFiles(hist[i].copied[1]) =
                <<hist[i].desc.id, hist[i].desc.id, hist[i].desc.id, hist[i].desc.id>>

\* C29's case: the earlier attempt left a yang file and generated files of
\* another descriptor.
C29_Witness ==
    \E i \in DOMAIN hist :
       /\ OverLeftovers(i)
       /\ hist[i].pre.yang \notin {Absent, hist[i].desc.yang}
       /\ hist[i].desc.yang # Absent
       /\ hist[i].pre.gomod \notin {Absent, hist[i].desc.id}

(***************************************************************************)
(* Claims about PluginCache.GetPath, checked under PathSpec.               *)
(***************************************************************************)

IsGetPath(i) == hist[i].op = "GetPath"

\* Name and version hold no path separator.
NoSeparator(k) ==
    /\ \A j \in DOMAIN k.name : k.name[j] # "/"
    /\ \A j \in DOMAIN k.version : k.version[j] # "/"

\* {cache_root}/{base64url(hash)}/{name}-{version}.so
ArtifactPath(hash, k) == <<CachePath, B64(hash), ArtifactFile(k.name, k.version)>>

\* C30 as stated: GetPath returns {cache_root}/{base64url(hash)}/{name}-{version}.so
\* for the hash of the resolver, creates or writes no file and runs no subprocess.
C30_GetPathIsPure_AsStated ==
    \A i \in DOMAIN hist :
       IsGetPath(i)
       => /\ ~hist[i].ran /\ hist[i].wrote = {}
          /\ hist[i].err = NoErr => hist[i].path = ArtifactPath(hist[i].hash, hist[i].key)

\* C30 amended: with go.mod and mod.md5 present and go.mod parsing, GetPath
\* runs no subprocess, writes no file and returns the cleaned join of the cache
\* root, the base64url of the bytes of mod.md5 and "{name}-{version}.so", which is
\* {cache_root}/{base64url(hash)}/{name}-{version}.so when the hash is not empty
\* and name and version hold no path separator; otherwise it returns the error
\* of Resolve or the path for the hash Resolve fetched and persisted.
C30_GetPathIsPure ==
    \A i \in DOMAIN hist :
       IsGetPath(i)
       => /\ PairPresent(hist[i].pre)
             => /\ hist[i].err = NoErr /\ hist[i].hash = hist[i].pre.md5
                /\ ~hist[i].ran /\ hist[i].wrote = {}
                /\ ResPost(i) = hist[i].pre
          /\ (hist[i].err = NoErr /\ hist[i].hash # "empty" /\ NoSeparator(hist[i].key))
                => hist[i].path = ArtifactPath(hist[i].hash, hist[i].key)
          /\ (hist[i].err = NoErr /\ ~PairPresent(hist[i].pre))
                => /\ hist[i].ran /\ hist[i].wrote = {"go.mod", "mod.md5"}
                   /\ hist[i].hash = hist[i].pre.upstream.hash
                   /\ ResPost(i).md5 = hist[i].hash

\* C30 witness: a GetPath on a resolver whose pair holds the second hash
\* returned the path in that partition without a subprocess.
C30_Witness ==
    \E i \in DOMAIN hist :
       /\ IsGetPath(i) /\ PairPresent(hist[i].pre) /\ hist[i].pre.md5 = "h2"
       /\ hist[i].key = Key(NameA, Ver1)
       /\ hist[i].path = <<CachePath, <<"aDI=">>, <<"a", "-", "1", ".so">>>>
       /\ ~hist[i].ran

====
